---- MODULE Spec2Model ----
(***************************************************************************)
(* Model of the diagram layout code of gridai: assignLayers, the per-type  *)
(* layout strategies, calculateLayout, anchorOnRect and the rendering       *)
(* procedure applyDiagramToEditor.                                          *)
(*                                                                          *)
(* The converter exists in two revisions in the sources                     *)
(* (src/src/lib/diagramConverter.ts with four strategies and                *)
(* src/unnamed/part_011 with ten); the revision is the parameter b of the   *)
(* operators below.  Node ids are opaque strings in the code, so a node    *)
(* list of n unique ids is written "A", "B", ... in input order.            *)
(*                                                                          *)
(* Coordinates are exact integers except on the two circular strategies,    *)
(* where radius * cos/sin is rounded to the nearest integer.                *)
(***************************************************************************)
EXTENDS Integers, Sequences, FiniteSets, TLC

(* ------------------------------ bounds --------------------------------- *)
MaxNodes ==
  3
MaxEdges ==
  3
MaxDagNodes ==
  4
MaxDagEdges ==
  4
MaxCoord ==
  2
MaxRenderNodes ==
  2
MaxRenderEdges ==
  2

(* ------------------------------ inputs --------------------------------- *)
Ids == <<"A", "B", "C", "D", "E", "F">>
Ghost == "Z"
Builds == {"converter", "part011"}
KnownTypes == {"directed-graph", "sequence", "tree", "flowchart", "state-machine",
               "entity-relationship", "network", "timeline", "class-diagram",
               "deployment"}
NoType == "undefined"
Types == KnownTypes \cup {"mindmap", NoType}

(* A node: its id, its label by the length of the string (only            *)
(* label.length is read) and its kind.                                     *)
KindedNode(i, len, kind) == [id |-> Ids[i], label |-> len, kind |-> kind]
LabelledNode(i, len) == KindedNode(i, len, "service")
Node(i) == LabelledNode(i, 5)
NodeList(n) == [i \in 1..n |-> Node(i)]
NodeIds(nodes) == {nodes[i].id : i \in 1..Len(nodes)}
Edge(f, t) == [from |-> f, to |-> t]
EdgesOver(S) == {Edge(f, t) : f \in S, t \in S}

RECURSIVE SeqsUpTo(_, _)
SeqsUpTo(S, n) ==
  IF n = 0 THEN {<<>>}
  ELSE LET shorter == SeqsUpTo(S, n - 1)
       IN shorter \cup {Append(s, e) : s \in {t \in shorter : Len(t) = n - 1}, e \in S}

(* ------------------------- array / Map helpers ------------------------- *)
Filter(s, Keep(_)) == SelectSeq(s, Keep)

IndexOf(s, x) == CHOOSE i \in 1..Len(s) : s[i] = x /\ \A j \in 1..(i - 1) : s[j] # x

Range(s) == {s[i] : i \in 1..Len(s)}

MaxOf(S) == CHOOSE m \in S : \A x \in S : x <= m

EmptyMap == <<>>
MapHas(m, k) == k \in DOMAIN m
MapSet(m, k, v) == [i \in (DOMAIN m) \cup {k} |-> IF i = k THEN v ELSE m[i]]
Pos(px, py) == [x |-> px, y |-> py]

(* An insertion-ordered Map<string, number>: a sequence of entries. *)
OMapKeys(om) == {om[i].id : i \in 1..Len(om)}
OMapGet(om, k) == om[CHOOSE i \in 1..Len(om) : om[i].id = k].layer
OMapSet(om, k, v) ==
  IF k \in OMapKeys(om)
  THEN [i \in 1..Len(om) |-> IF om[i].id = k THEN [id |-> k, layer |-> v] ELSE om[i]]
  ELSE Append(om, [id |-> k, layer |-> v])

(* graph.get(nodeId) || []  after  edges.forEach(... push(edge.to)) *)
Children(edges, nodeId) ==
  LET out == Filter(edges, LAMBDA e : e.from = nodeId)
  IN [i \in 1..Len(out) |-> out[i].to]

HasIncoming(edges) == {edges[i].to : i \in 1..Len(edges)}
Roots(nodes, edges) == Filter(nodes, LAMBDA n : n.id \notin HasIncoming(edges))

(* ----------------------------- assignLayers ---------------------------- *)
RECURSIVE assignLayer(_, _, _, _)
RECURSIVE assignLayerEach(_, _, _, _, _)
assignLayer(edges, st, nodeId, layer) ==
  IF nodeId \in st.visited
  THEN LET currentLayer == OMapGet(st.layers, nodeId)
       IN IF layer > currentLayer
          THEN [st EXCEPT !.layers = OMapSet(st.layers, nodeId, layer)]
          ELSE st
  ELSE LET st1 == [visited |-> st.visited \cup {nodeId},
                   layers |-> OMapSet(st.layers, nodeId, layer)]
       IN assignLayerEach(edges, st1, Children(edges, nodeId), 1, layer + 1)
assignLayerEach(edges, st, ch, i, layer) ==
  IF i > Len(ch) THEN st
  ELSE assignLayerEach(edges, assignLayer(edges, st, ch[i], layer), ch, i + 1, layer)

RECURSIVE FillRemaining(_, _, _)
FillRemaining(nodes, i, layers) ==
  IF i > Len(nodes) THEN layers
  ELSE FillRemaining(nodes, i + 1,
         IF nodes[i].id \in OMapKeys(layers) THEN layers
         ELSE OMapSet(layers, nodes[i].id, 0))

assignLayers(nodes, edges) ==
  LET roots == Roots(nodes, edges)
      st0 == [visited |-> {}, layers |-> <<>>]
      st1 == IF Len(roots) > 0
             THEN assignLayerEach(edges, st0, [i \in 1..Len(roots) |-> roots[i].id], 1, 0)
             ELSE assignLayer(edges, st0, nodes[1].id, 0)
  IN FillRemaining(nodes, 1, st1.layers)

(* nodes[0].id of the no-root branch is a TypeError on an empty node list *)
assignLayersThrows(nodes, edges) == Len(Roots(nodes, edges)) = 0 /\ Len(nodes) = 0

(* ----------------------- per-revision spacing constants ---------------- *)
K(b, conv, p11) == IF b = "converter" THEN conv ELSE p11
SeqStartX(b) == K(b, 150, 200)
SeqStartY(b) == K(b, 300, 350)
SeqHSpacing(b) == K(b, 400, 750)
SeqVSpacing(b) == K(b, 250, 450)
DgCenterX(b) == K(b, 600, 700)
DgCenterY(b) == K(b, 400, 450)
DgHSpacing(b) == K(b, 450, 600)
DgVSpacing(b) == K(b, 280, 380)
FcStartX(b) == K(b, 600, 700)
FcStartY(b) == K(b, 100, 150)
FcVSpacing(b) == K(b, 250, 350)
FcHSpacing(b) == K(b, 400, 550)
TreeStartX(b) == K(b, 400, 500)
TreeStartY(b) == K(b, 100, 150)
TreeLevelHeight(b) == K(b, 250, 350)
TreeNodeWidth(b) == K(b, 350, 500)

Abs(n) == IF n < 0 THEN -n ELSE n

(* ----------------------------- layoutSequence -------------------------- *)
RECURSIVE positionNode(_, _, _, _, _)
RECURSIVE positionNodeEach(_, _, _, _, _, _)
positionNode(b, edges, st, nodeId, column) ==
  IF nodeId \in st.visited THEN st
  ELSE LET visited1 == st.visited \cup {nodeId}
           colX == SeqStartX(b) + column * SeqHSpacing(b)
           nodesInColumn ==
             Cardinality({id \in visited1 :
                            MapHas(st.positions, id)
                            /\ Abs(st.positions[id].x - colX) < 50})
           st1 == [visited |-> visited1,
                   positions |-> MapSet(st.positions, nodeId,
                                   Pos(colX, SeqStartY(b) + nodesInColumn * SeqVSpacing(b)))]
       IN positionNodeEach(b, edges, st1, Children(edges, nodeId), 1, column + 1)
positionNodeEach(b, edges, st, ch, i, column) ==
  IF i > Len(ch) THEN st
  ELSE positionNodeEach(b, edges, positionNode(b, edges, st, ch[i], column), ch, i + 1, column)

SeqRemainingDropped(b, nodes, i, st) == st.positions

RECURSIVE SeqRemaining(_, _, _, _)
SeqRemaining(b, nodes, i, st) ==
  IF i > Len(nodes) THEN st.positions
  ELSE SeqRemaining(b, nodes, i + 1,
         IF nodes[i].id \in st.visited THEN st
         ELSE [st EXCEPT !.positions =
                 MapSet(st.positions, nodes[i].id,
                        Pos(SeqStartX(b) + 2 * SeqHSpacing(b),
                            SeqStartY(b) + (i - 1) * SeqVSpacing(b)))])

layoutSequence(b, nodes, edges) ==
  LET startNodes == Roots(nodes, edges)
  IN IF Len(startNodes) = 0
     THEN [id \in NodeIds(nodes) |->
             Pos(SeqStartX(b) + (IndexOf([i \in 1..Len(nodes) |-> nodes[i].id], id) - 1)
                                  * SeqHSpacing(b),
                 SeqStartY(b))]
     ELSE SeqRemaining(b, nodes, 1,
            positionNodeEach(b, edges, [visited |-> {}, positions |-> EmptyMap],
                             [i \in 1..Len(startNodes) |-> startNodes[i].id], 1, 0))

(* ------------------ layoutDirectedGraph / layoutFlowchart --------------- *)
NodesInLayer(layers, layer) == Filter(layers, LAMBDA e : e.layer = layer)
IndexInLayer(layers, nodeId) ==
  LET inLayer == NodesInLayer(layers, OMapGet(layers, nodeId))
  IN IndexOf([i \in 1..Len(inLayer) |-> inLayer[i].id], nodeId) - 1
LayerSize(layers, nodeId) == Len(NodesInLayer(layers, OMapGet(layers, nodeId)))

(* (a - c / 2) * spacing, exact because every spacing is even *)
HalfOffset(a, c, spacing) == ((2 * a - c) * spacing) \div 2

layoutDirectedGraphThrows(nodes, edges) == assignLayersThrows(nodes, edges)

layoutDirectedGraph(b, nodes, edges) ==
  LET layers == assignLayers(nodes, edges)
      maxLayer == MaxOf({layers[i].layer : i \in 1..Len(layers)})
  IN [id \in OMapKeys(layers) |->
        Pos(DgCenterX(b) + HalfOffset(OMapGet(layers, id), maxLayer, DgHSpacing(b)),
            DgCenterY(b) + HalfOffset(IndexInLayer(layers, id), LayerSize(layers, id),
                                      DgVSpacing(b)))]

layoutFlowchartFlat(b, nodes, edges) ==
  LET layers == assignLayers(nodes, edges)
  IN [id \in OMapKeys(layers) |->
        Pos(FcStartX(b) + HalfOffset(IndexInLayer(layers, id), LayerSize(layers, id),
                                     FcHSpacing(b)),
            FcStartY(b) + IndexInLayer(layers, id) * FcVSpacing(b))]

layoutFlowchart(b, nodes, edges) ==
  LET layers == assignLayers(nodes, edges)
  IN [id \in OMapKeys(layers) |->
        Pos(FcStartX(b) + HalfOffset(IndexInLayer(layers, id), LayerSize(layers, id),
                                     FcHSpacing(b)),
            FcStartY(b) + OMapGet(layers, id) * FcVSpacing(b))]

(* ------------------------------- layoutTree ---------------------------- *)
RECURSIVE assignLevel(_, _, _, _, _)
RECURSIVE assignLevelEach(_, _, _, _, _, _)
assignLevel(nodes, edges, st, nodeId, level) ==
  IF nodeId \in st.visited THEN st
  ELSE LET visited1 == st.visited \cup {nodeId}
       IN IF nodeId \notin NodeIds(nodes)
          THEN [st EXCEPT !.visited = visited1]
          ELSE LET levels1 ==
                     IF level + 1 > Len(st.levels)
                     THEN Append(st.levels, <<nodeId>>)
                     ELSE [st.levels EXCEPT ![level + 1] = Append(@, nodeId)]
               IN assignLevelEach(nodes, edges, [visited |-> visited1, levels |-> levels1],
                                  Children(edges, nodeId), 1, level + 1)
assignLevelEach(nodes, edges, st, ch, i, level) ==
  IF i > Len(ch) THEN st
  ELSE assignLevelEach(nodes, edges, assignLevel(nodes, edges, st, ch[i], level),
                       ch, i + 1, level)

RECURSIVE TreeUnvisited(_, _, _)
TreeUnvisited(nodes, i, st) ==
  IF i > Len(nodes) THEN st.levels
  ELSE TreeUnvisited(nodes, i + 1,
         IF nodes[i].id \in st.visited THEN st
         ELSE [st EXCEPT !.levels = Append(st.levels, <<nodes[i].id>>)])

LevelOf(levels, id) == CHOOSE l \in 1..Len(levels) : id \in Range(levels[l])

layoutTree(b, nodes, edges) ==
  LET roots == Roots(nodes, edges)
  IN IF Len(roots) = 0 THEN layoutDirectedGraph(b, nodes, edges)
     ELSE LET levels ==
                TreeUnvisited(nodes, 1,
                  assignLevelEach(nodes, edges, [visited |-> {}, levels |-> <<>>],
                                  [i \in 1..Len(roots) |-> roots[i].id], 1, 0))
          IN [id \in UNION {Range(levels[l]) : l \in 1..Len(levels)} |->
                LET l == LevelOf(levels, id)
                    levelWidth == Len(levels[l]) * TreeNodeWidth(b)
                IN Pos(TreeStartX(b) - levelWidth \div 2
                         + (IndexOf(levels[l], id) - 1) * TreeNodeWidth(b),
                       TreeStartY(b) + (l - 1) * TreeLevelHeight(b))]

(* ------------------------- circular strategies ------------------------- *)
(* cos and sin of (k / n) * 2 * PI in millionths, k < n <= 6 *)
CosTable == << <<1000000>>,
               <<1000000, -1000000>>,
               <<1000000, -500000, -500000>>,
               <<1000000, 0, -1000000, 0>>,
               <<1000000, 309017, -809017, -809017, 309017>>,
               <<1000000, 500000, -500000, -1000000, -500000, 500000>> >>
SinTable == << <<0>>,
               <<0, 0>>,
               <<0, 866025, -866025>>,
               <<0, 1000000, 0, -1000000>>,
               <<0, 951057, 587785, -587785, -951057>>,
               <<0, 866025, 866025, 0, -866025, -866025>> >>
RoundDiv(a, d) == (2 * a + d) \div (2 * d)
OnCircle(cx, cy, radius, index, count) ==
  Pos(cx + RoundDiv(radius * CosTable[count][index + 1], 1000000),
      cy + RoundDiv(radius * SinTable[count][index + 1], 1000000))

IdsOf(nodes) == [i \in 1..Len(nodes) |-> nodes[i].id]

layoutStateMachine(nodes, edges) ==
  [id \in NodeIds(nodes) |->
     OnCircle(600, 400, 350, IndexOf(IdsOf(nodes), id) - 1, Len(nodes))]

(* ------------------------------ grid strategies ------------------------ *)
CeilSqrt(n) == CHOOSE c \in 0..n : c * c >= n /\ \A d \in 0..(c - 1) : d * d < n

GridLayout(nodes, startX, startY, horizontalSpacing, verticalSpacing) ==
  LET cols == CeilSqrt(Len(nodes))
  IN [id \in NodeIds(nodes) |->
        LET index == IndexOf(IdsOf(nodes), id) - 1
        IN Pos(startX + (index % cols) * horizontalSpacing,
               startY + (index \div cols) * verticalSpacing)]

layoutEntityRelationship(nodes, edges) == GridLayout(nodes, 300, 200, 600, 400)

layoutClassDiagram(nodes, edges) == GridLayout(nodes, 300, 200, 500, 350)

(* ------------------------------ layoutNetwork -------------------------- *)
connectionCount(edges, id) ==
  Cardinality({i \in 1..Len(edges) : edges[i].from = id})
  + Cardinality({i \in 1..Len(edges) : edges[i].to = id})

(* the nodes in input order, as [...nodes] is before .sort() *)
sortedNodesInputOrder(nodes, edges) ==
  [r \in 1..Len(nodes) |-> nodes[r].id]

(* [...nodes].sort((a, b) => count(b) - count(a)): stable, descending degree *)
sortedNodes(nodes, edges) ==
  LET n == Len(nodes)
      Before(i, j) ==
        \/ connectionCount(edges, nodes[i].id) > connectionCount(edges, nodes[j].id)
        \/ /\ connectionCount(edges, nodes[i].id) = connectionCount(edges, nodes[j].id)
           /\ i < j
      Rank(i) == Cardinality({j \in 1..n : Before(j, i)}) + 1
  IN [r \in 1..n |-> nodes[CHOOSE i \in 1..n : Rank(i) = r].id]

(* Math.min(3, Math.floor(nodes.length * 0.3)) *)
hubCount(nodes) ==
  LET f == (3 * Len(nodes)) \div 10
  IN IF f < 3 THEN f ELSE 3

layoutNetwork(nodes, edges) ==
  LET sorted == sortedNodes(nodes, edges)
      hubs == hubCount(nodes)
      peripheral == Len(nodes) - hubs
  IN [id \in NodeIds(nodes) |->
        LET r == IndexOf(sorted, id)
        IN IF r <= hubs
           THEN OnCircle(600, 400, 250, r - 1, hubs)
           ELSE OnCircle(600, 400, 500, r - hubs - 1, peripheral)]

(* ------------------------------ layoutTimeline ------------------------- *)
layoutTimeline(nodes, edges) ==
  [id \in NodeIds(nodes) |-> Pos(200 + (IndexOf(IdsOf(nodes), id) - 1) * 600, 400)]

(* ----------------------------- layoutDeployment ------------------------ *)
layoutDeployment(nodes, edges) ==
  LET layers == assignLayers(nodes, edges)
      layerOf(id) == IF id \in OMapKeys(layers) THEN OMapGet(layers, id) ELSE 0
      group(layer) == Filter(IdsOf(nodes), LAMBDA id : layerOf(id) = layer)
  IN [id \in NodeIds(nodes) |->
        LET layer == layerOf(id)
            nodesInLayer == group(layer)
            layerWidth == Len(nodesInLayer) * 550
        IN Pos(700 - layerWidth \div 2 + (IndexOf(nodesInLayer, id) - 1) * 550,
               200 + layer * 400)]

(* ------------------------------ calculateLayout ------------------------ *)
calculateLayoutUnknownAsGrid(b, s) ==
  IF Len(s.nodes) = 0 THEN EmptyMap
  ELSE CASE s.type = "sequence" -> layoutSequence(b, s.nodes, s.edges)
         [] s.type = "tree" -> layoutTree(b, s.nodes, s.edges)
         [] s.type = "flowchart" -> layoutFlowchart(b, s.nodes, s.edges)
         [] s.type = "directed-graph" -> layoutDirectedGraph(b, s.nodes, s.edges)
         [] OTHER -> layoutClassDiagram(s.nodes, s.edges)

calculateLayout(b, s) ==
  IF Len(s.nodes) = 0 THEN EmptyMap
  ELSE CASE s.type = "sequence" -> layoutSequence(b, s.nodes, s.edges)
         [] s.type = "tree" -> layoutTree(b, s.nodes, s.edges)
         [] s.type = "flowchart" -> layoutFlowchart(b, s.nodes, s.edges)
         [] b = "part011" /\ s.type = "state-machine" -> layoutStateMachine(s.nodes, s.edges)
         [] b = "part011" /\ s.type = "entity-relationship" ->
              layoutEntityRelationship(s.nodes, s.edges)
         [] b = "part011" /\ s.type = "network" -> layoutNetwork(s.nodes, s.edges)
         [] b = "part011" /\ s.type = "timeline" -> layoutTimeline(s.nodes, s.edges)
         [] b = "part011" /\ s.type = "class-diagram" -> layoutClassDiagram(s.nodes, s.edges)
         [] b = "part011" /\ s.type = "deployment" -> layoutDeployment(s.nodes, s.edges)
         [] OTHER -> layoutDirectedGraph(b, s.nodes, s.edges)

(* ------------------------------ anchorOnRect ------------------------- *)
(* Numbers of anchorOnRect are exact fractions [n, d] with d > 0; the      *)
(* rounding of floating-point division is not represented.                *)
RECURSIVE GCD(_, _)
GCD(x, y) == IF y = 0 THEN x ELSE GCD(y, x % y)

(* in lowest terms; a denominator of 0 is kept: the result of dividing by 0 *)
Rat(n, d) ==
  IF d = 0 THEN [n |-> n, d |-> 0]
  ELSE LET g == GCD(IF n < 0 THEN -n ELSE n, IF d < 0 THEN -d ELSE d)
       IN IF d < 0 THEN [n |-> (-n) \div g, d |-> (-d) \div g]
          ELSE [n |-> n \div g, d |-> d \div g]
RInt(n) == Rat(n, 1)
RAdd(p, q) == Rat(p.n * q.d + q.n * p.d, p.d * q.d)
RSub(p, q) == Rat(p.n * q.d - q.n * p.d, p.d * q.d)
RMul(p, q) == Rat(p.n * q.n, p.d * q.d)
RDiv(p, q) == Rat(p.n * q.d, p.d * q.n)
RAbs(p) == Rat(Abs(p.n), p.d)
RSign(p) == IF p.n > 0 THEN RInt(1) ELSE IF p.n < 0 THEN RInt(-1) ELSE RInt(0)
RIsZero(p) == p.n = 0
REq(p, q) == p.n * q.d = q.n * p.d
RGt(p, q) == p.n * q.d > q.n * p.d
RLe(p, q) == p.n * q.d <= q.n * p.d
(* v || 1 *)
ROr1(p) == IF RIsZero(p) THEN RInt(1) ELSE p

anchorOnRectUnguarded(a, b, w, h) ==
  LET ax == RAdd(RInt(a.x), Rat(w, 2))
      ay == RAdd(RInt(a.y), Rat(h, 2))
      bx == RAdd(RInt(b.x), Rat(w, 2))
      by == RAdd(RInt(b.y), Rat(h, 2))
      dx == RSub(bx, ax)
      dy == RSub(by, ay)
      rx == Rat(w, 2)
      ry == Rat(h, 2)
      absDx == RAbs(dx)
      absDy == RAbs(dy)
  IN IF RIsZero(dx) /\ RIsZero(dy) THEN Pos(ax, ay)
     ELSE IF RGt(RMul(absDx, ry), RMul(absDy, rx))
     THEN Pos(RAdd(ax, RMul(ROr1(RSign(dx)), rx)),
              RAdd(ay, RMul(dy, RDiv(rx, absDx))))
     ELSE Pos(RAdd(ax, RMul(dx, RDiv(ry, absDy))),
              RAdd(ay, RMul(ROr1(RSign(dy)), ry)))

anchorOnRectSwapped(a, b, w, h) ==
  LET ax == RAdd(RInt(a.x), Rat(w, 2))
      ay == RAdd(RInt(a.y), Rat(h, 2))
      bx == RAdd(RInt(b.x), Rat(w, 2))
      by == RAdd(RInt(b.y), Rat(h, 2))
      dx == RSub(bx, ax)
      dy == RSub(by, ay)
      rx == Rat(w, 2)
      ry == Rat(h, 2)
      absDx == RAbs(dx)
      absDy == RAbs(dy)
  IN IF RIsZero(dx) /\ RIsZero(dy) THEN Pos(ax, ay)
     ELSE IF RGt(RMul(absDy, rx), RMul(absDx, ry))
     THEN Pos(RAdd(ax, RMul(ROr1(RSign(dx)), rx)),
              RAdd(ay, RMul(dy, RDiv(rx, ROr1(absDx)))))
     ELSE Pos(RAdd(ax, RMul(dx, RDiv(ry, ROr1(absDy)))),
              RAdd(ay, RMul(ROr1(RSign(dy)), ry)))

anchorOnRect(a, b, w, h) ==
  LET ax == RAdd(RInt(a.x), Rat(w, 2))
      ay == RAdd(RInt(a.y), Rat(h, 2))
      bx == RAdd(RInt(b.x), Rat(w, 2))
      by == RAdd(RInt(b.y), Rat(h, 2))
      dx == RSub(bx, ax)
      dy == RSub(by, ay)
      rx == Rat(w, 2)
      ry == Rat(h, 2)
      absDx == RAbs(dx)
      absDy == RAbs(dy)
  IN IF RIsZero(dx) /\ RIsZero(dy) THEN Pos(ax, ay)
     ELSE IF RGt(RMul(absDx, ry), RMul(absDy, rx))
     THEN Pos(RAdd(ax, RMul(ROr1(RSign(dx)), rx)),
              RAdd(ay, RMul(dy, RDiv(rx, ROr1(absDx)))))
     ELSE Pos(RAdd(ax, RMul(dx, RDiv(ry, ROr1(absDy)))),
              RAdd(ay, RMul(ROr1(RSign(dy)), ry)))

(* ------------------------------ the inputs ----------------------------- *)
InputEdges(n) == SeqsUpTo(EdgesOver(Range(IdsOf(NodeList(n))) \cup {Ghost}), MaxEdges)

(* top-left corners and box sizes handed to anchorOnRect *)
AnchorXs == {70 * k : k \in -MaxCoord..MaxCoord}
AnchorYs == {50 * k : k \in -MaxCoord..MaxCoord}
AnchorWidths == {0, 220, 300}
AnchorHeights == {0, 120}
NoAnchorIn == [a |-> Pos(0, 0), b |-> Pos(0, 0), w |-> 0, h |-> 0]
NoAnchorOut == Pos(RInt(0), RInt(0))

VARIABLES build, spec, pc, layers, positions, dfs, anchorIn, anchorOut, render, editor,
          inflight, canvas, storage
vars == <<build, spec, pc, layers, positions, dfs, anchorIn, anchorOut, render, editor,
          inflight, canvas, storage>>

(* ---------------------- applyDiagramToEditor: state -------------------- *)
(* render: one call of applyDiagramToEditor; editor: the shapes of the     *)
(* tldraw editor in creation order.                                        *)
RenderIdle ==
  [pc |-> "idle", elk |-> "none", nodePositions |-> EmptyMap, shapeIds |-> EmptyMap,
   i |-> 0, nextId |-> 1, failed |-> FALSE,
   elkCalls |-> 0, layoutCalls |-> 0]

(* positions the external layout engine may report for a child *)
ElkPoints == {Pos(12, 12), Pos(382, 12)}
(* res.children of a resolved elk.layout: any part of the spec's nodes *)
ElkResults(s) == UNION {[S -> ElkPoints] : S \in SUBSET NodeIds(s.nodes)}

(* an earlier call of applyDiagramToEditor on the same editor that has not *)
(* finished when the next one starts: its spec argument and its locals    *)
NoInflight ==
  [active |-> FALSE, spec |-> [type |-> NoType, nodes |-> <<>>, edges |-> <<>>],
   render |-> RenderIdle]

(* ---------------- DiagramCanvas and diagramStorage: state --------------- *)
(* ids of the chat messages whose diagrams the canvas shows *)
CanvasMessages == {"m1", "m2"}
NoMessage == "none"

(* a shape of an editor: the message whose diagram it is of, node or      *)
(* arrow, and the applyDiagramToEditor call that created it with a new    *)
(* createShapeId (0: a call of an earlier session)                        *)
Shape(m, kind, call) == [msg |-> m, kind |-> kind, call |-> call]
(* editor.getSnapshot(): the shapes in the editor; null is NoSnapshot *)
Snapshot(shapes) == [present |-> TRUE, shapes |-> shapes]
NoSnapshot == [present |-> FALSE, shapes |-> {}]

(* localStorage.getItem(storageKey(messageId)): null, a text JSON.parse   *)
(* cannot read, or the text of a data object                               *)
NoItem == [kind |-> "none", version |-> 0, sig |-> <<>>, snapshot |-> NoSnapshot]
GarbageItem == [kind |-> "garbage", version |-> 0, sig |-> <<>>, snapshot |-> NoSnapshot]
DataItem(version, sig, snapshot) ==
  [kind |-> "data", version |-> version, sig |-> sig, snapshot |-> snapshot]

(* a saveSnapshot call: the signature of its spec and its snapshot *)
NoSave == [made |-> FALSE, sig |-> <<>>, snapshot |-> NoSnapshot]
SaveOf(sig, snapshot) == [made |-> TRUE, sig |-> sig, snapshot |-> snapshot]
(* a loadSnapshot call: its arguments and what it returned *)
NoLoad == [made |-> FALSE, msg |-> NoMessage, sig |-> <<>>, value |-> NoSnapshot]

(* localStorage by message id, and the calls made on it: per message the  *)
(* last saveSnapshot since the last clearSnapshot, the last one of them   *)
(* whose setItem did not throw, and the loadSnapshot just made, if the    *)
(* last call was one                                                       *)
NoStorage ==
  [items |-> [m \in CanvasMessages |-> NoItem],
   lastSave |-> [m \in CanvasMessages |-> NoSave],
   lastWritten |-> [m \in CanvasMessages |-> NoSave],
   lastLoad |-> NoLoad]

NoTimer == [active |-> FALSE, msg |-> NoMessage, snapshot |-> NoSnapshot]

(* the component: whether its parent renders it with a messageId, the    *)
(* messageId prop, the spec prop (named by the message whose diagram it   *)
(* is; NoMessage: not mounted), editorReady (Tldraw has called onMount   *)
(* and editorRef holds the editor), the content of its editor, the       *)
(* diagramSnapshotCache, the applyDiagramToEditor calls not yet finished  *)
(* on that editor and the number of calls started so far, isRestoringRef, *)
(* a store change not yet delivered to the listener, saveTimerRef, the    *)
(* debounce timers and the editors left by unmounted components, and      *)
(* whether the last run of the effect read the storage                    *)
NoCanvas ==
  [idParent |-> TRUE, messageId |-> NoMessage, specOf |-> NoMessage, content |-> {},
   cache |-> [m \in CanvasMessages |-> NoSnapshot],
   ready |-> FALSE, calls |-> <<>>, gestures |-> 0, restoring |-> FALSE, changed |-> FALSE,
   saveTimer |-> NoTimer, orphanSaves |-> {}, detached |-> {}, readStorage |-> FALSE]

NODE_W ==
  220
NODE_H ==
  120

Min2(x, y) == IF x < y THEN x ELSE y
Max2(x, y) == IF x > y THEN x ELSE y

(* getIconForKind(kind).length, in UTF-16 code units, by the cases of the *)
(* switch of each revision: an emoji outside the basic plane is 2 units,  *)
(* one followed by a variation selector 3, and the default icon is 1      *)
IconLength(b, kind) ==
  IF b = "converter"
  THEN CASE kind \in {"db", "ui"} -> 3
         [] kind \in {"actor", "service", "queue", "component", "process",
                      "storage", "external", "api", "gateway", "lb",
                      "loadbalancer", "worker", "note", "annotation"} -> 2
         [] OTHER -> 1
  ELSE CASE kind \in {"server", "db", "ui", "firewall"} -> 3
         [] kind \in {"actor", "service", "queue", "component", "process",
                      "storage", "external", "client", "browser", "mobile",
                      "api", "gateway", "lb", "loadbalancer", "worker",
                      "container", "cdn", "router", "switch", "monitoring",
                      "analytics", "auth", "payment", "email", "notification",
                      "file", "log", "backup", "orchestrator", "registry",
                      "search", "stream", "pubsub", "webhook", "proxy",
                      "note", "annotation"} -> 2
         [] OTHER -> 1

(* nodeWidth of the node loop: labelText is icon, a space and the label *)
nodeWidth(b, node) ==
  LET textWidth == (IconLength(b, node.kind) + 1 + node.label) * 8
      iconWidth == 20
  IN Max2(NODE_W, Min2(300, textWidth + iconWidth + 40))

(* fromWidth / toWidth of the edge loop *)
edgeEndWidth(nodes, id) ==
  LET found == Filter(nodes, LAMBDA n : n.id = id)
      textWidth == IF Len(found) > 0 THEN found[1].label * 8 + 40 ELSE NODE_W
  IN Max2(NODE_W, Min2(300, textWidth))

NoPoint == Pos(RInt(0), RInt(0))

(* editor.createShape of a node: type (a sticky note for the kinds note   *)
(* and annotation, a geo shape for every other kind), x, y, props.w,      *)
(* props.h                                                                 *)
GeoShape(b, id, node, pos) ==
  [id |-> id,
   type |-> IF node.kind \in {"note", "annotation"} THEN "note" ELSE "geo",
   node |-> node.id, from |-> "", to |-> "",
   x |-> pos.x, y |-> pos.y, w |-> nodeWidth(b, node), h |-> NODE_H,
   start |-> NoPoint, end |-> NoPoint]

(* editor.createShape of an arrow: the shape is at start and props.end is   *)
(* relative to it.  The first revision anchors both ends with anchorOnRect, *)
(* the second joins the two box centers.                                    *)
ArrowShape(b, id, e, nodes, nodePositions) ==
  LET fromPos == nodePositions[e.from]
      toPos == nodePositions[e.to]
      fromWidth == edgeEndWidth(nodes, e.from)
      toWidth == edgeEndWidth(nodes, e.to)
      start == IF b = "converter"
               THEN anchorOnRect(fromPos, toPos, fromWidth, NODE_H)
               ELSE Pos(RAdd(RInt(fromPos.x), Rat(fromWidth, 2)),
                        RAdd(RInt(fromPos.y), Rat(NODE_H, 2)))
      end == IF b = "converter"
             THEN anchorOnRect(toPos, fromPos, toWidth, NODE_H)
             ELSE Pos(RAdd(RInt(toPos.x), Rat(toWidth, 2)),
                      RAdd(RInt(toPos.y), Rat(NODE_H, 2)))
  IN [id |-> id, type |-> "arrow", node |-> "", from |-> e.from, to |-> e.to,
      x |-> 0, y |-> 0, w |-> 0, h |-> 0,
      start |-> start, end |-> Pos(RSub(end.x, start.x), RSub(end.y, start.y))]

calculateLayoutThrowsUnguarded(b, s) ==
  /\ s.type \notin {"sequence", "state-machine", "entity-relationship", "network",
                    "timeline", "class-diagram"}
  /\ assignLayersThrows(s.nodes, s.edges)

(* calculateLayout raises: only assignLayers can, reading nodes[0].id of   *)
(* an empty list, and the early return keeps every strategy from it        *)
calculateLayoutThrows(b, s) ==
  /\ Len(s.nodes) # 0
  /\ s.type \notin {"sequence", "state-machine", "entity-relationship", "network",
                    "timeline", "class-diagram"}
  /\ assignLayersThrows(s.nodes, s.edges)

layoutNoFallback(b, s, rejected, elkMap) == IF rejected THEN EmptyMap ELSE elkMap

(* try { nodePositions = (await computeElkLayout(spec)).nodePositions }    *)
(* catch (e) { nodePositions = calculateLayout(spec) }                     *)
layoutWithFallback(b, s, rejected, elkMap) ==
  IF rejected THEN calculateLayout(b, s) ELSE elkMap

(* the loop index of the next node that has a position, or Len + 1 *)
NextPositioned(nodes, nodePositions, i) ==
  IF \E j \in i..Len(nodes) : MapHas(nodePositions, nodes[j].id)
  THEN CHOOSE j \in i..Len(nodes) :
         /\ MapHas(nodePositions, nodes[j].id)
         /\ \A k \in i..(j - 1) : ~MapHas(nodePositions, nodes[k].id)
  ELSE Len(nodes) + 1

(* the synchronous run of the node loop from index i to its next await,   *)
(* or past the loop to the return of the call                              *)
RunNodeLoop(r, nodes, i) ==
  LET j == NextPositioned(nodes, r.nodePositions, i)
  IN IF j > Len(nodes)
     THEN [r EXCEPT !.pc = "resolved", !.i = j]
     ELSE [r EXCEPT !.pc = "nodeWait", !.i = j,
                    !.shapeIds = MapSet(@, nodes[j].id, r.nextId),
                    !.nextId = @ + 1]

RECURSIVE CreateArrowsDeduplicated(_, _, _, _, _)
CreateArrowsDeduplicated(b, s, i, r, shapes) ==
  IF i > Len(s.edges) THEN [render |-> r, shapes |-> shapes]
  ELSE LET e == s.edges[i]
           drawn == \E k \in 1..Len(shapes) :
                      /\ shapes[k].type = "arrow"
                      /\ {shapes[k].from, shapes[k].to} = {e.from, e.to}
       IN IF /\ MapHas(r.shapeIds, e.from) /\ MapHas(r.shapeIds, e.to)
             /\ MapHas(r.nodePositions, e.from) /\ MapHas(r.nodePositions, e.to)
             /\ ~drawn
          THEN CreateArrowsDeduplicated(b, s, i + 1, [r EXCEPT !.nextId = @ + 1],
                 Append(shapes, ArrowShape(b, r.nextId, e, s.nodes, r.nodePositions)))
          ELSE CreateArrowsDeduplicated(b, s, i + 1, r, shapes)

RECURSIVE CreateArrows(_, _, _, _, _)
CreateArrows(b, s, i, r, shapes) ==
  IF i > Len(s.edges) THEN [render |-> r, shapes |-> shapes]
  ELSE LET e == s.edges[i]
       IN IF /\ MapHas(r.shapeIds, e.from) /\ MapHas(r.shapeIds, e.to)
             /\ MapHas(r.nodePositions, e.from) /\ MapHas(r.nodePositions, e.to)
          THEN CreateArrows(b, s, i + 1, [r EXCEPT !.nextId = @ + 1],
                            Append(shapes, ArrowShape(b, r.nextId, e, s.nodes, r.nodePositions)))
          ELSE CreateArrows(b, s, i + 1, r, shapes)

(* ------------------- assignLayers, one call per step ------------------- *)
(* The recursion of assignLayer as an explicit call stack: a frame is the  *)
(* forEach over a child list (or over the roots) and the layer it passes.  *)
Frame(ch, layer) == [ch |-> ch, layer |-> layer]

StartList(nodes, edges) ==
  LET roots == Roots(nodes, edges)
  IN IF Len(roots) > 0 THEN IdsOf(roots) ELSE <<nodes[1].id>>

DfsIdle == [pc |-> "idle", stack |-> <<>>, visited |-> {}, layers |-> <<>>, calls |-> 0]

DfsStart(nodes, edges) ==
  [pc |-> "run", stack |-> <<Frame(StartList(nodes, edges), 0)>>,
   visited |-> {}, layers |-> <<>>, calls |-> 0]

assignLayerStepReexpands(edges, d) ==
  LET top == d.stack[Len(d.stack)]
      nodeId == Head(top.ch)
      layer == top.layer
      rest == [d.stack EXCEPT ![Len(d.stack)] = Frame(Tail(top.ch), layer)]
  IN [d EXCEPT !.stack = Append(rest, Frame(Children(edges, nodeId), layer + 1)),
               !.calls = @ + 1,
               !.visited = @ \cup {nodeId},
               !.layers = IF nodeId \in d.visited /\ layer <= OMapGet(d.layers, nodeId)
                          THEN @ ELSE OMapSet(@, nodeId, layer)]

assignLayerStepFirstSeen(edges, d) ==
  LET top == d.stack[Len(d.stack)]
      nodeId == Head(top.ch)
      layer == top.layer
      rest == [d.stack EXCEPT ![Len(d.stack)] = Frame(Tail(top.ch), layer)]
  IN IF nodeId \in d.visited
     THEN [d EXCEPT !.stack = rest, !.calls = @ + 1]
     ELSE [d EXCEPT !.stack = Append(rest, Frame(Children(edges, nodeId), layer + 1)),
                    !.calls = @ + 1,
                    !.visited = @ \cup {nodeId},
                    !.layers = OMapSet(@, nodeId, layer)]

(* the next assignLayer(nodeId, layer) call of the innermost forEach *)
assignLayerStep(edges, d) ==
  LET top == d.stack[Len(d.stack)]
      nodeId == Head(top.ch)
      layer == top.layer
      rest == [d.stack EXCEPT ![Len(d.stack)] = Frame(Tail(top.ch), layer)]
  IN IF nodeId \in d.visited
     THEN [d EXCEPT !.stack = rest,
                    !.calls = @ + 1,
                    !.layers = IF layer > OMapGet(d.layers, nodeId)
                               THEN OMapSet(d.layers, nodeId, layer) ELSE @]
     ELSE [d EXCEPT !.stack = Append(rest, Frame(Children(edges, nodeId), layer + 1)),
                    !.calls = @ + 1,
                    !.visited = @ \cup {nodeId},
                    !.layers = OMapSet(@, nodeId, layer)]

CallCap == 4 * (MaxNodes + MaxEdges)

InitNoAnchor ==
  /\ anchorIn = NoAnchorIn
  /\ anchorOut = NoAnchorOut
  /\ render = RenderIdle
  /\ editor = <<>>
  /\ inflight = NoInflight
  /\ canvas = NoCanvas
  /\ storage = NoStorage

InitCommon ==
  /\ InitNoAnchor
  /\ \E n \in 0..MaxNodes :
       \E es \in InputEdges(n) :
         spec = [type |-> NoType, nodes |-> NodeList(n), edges |-> es]
  /\ pc = "idle"
  /\ layers = <<>>
  /\ positions = EmptyMap
  /\ dfs = DfsIdle

Init ==
  /\ build \in Builds
  /\ InitCommon

(* calculateLayout(spec) for a spec of type t *)
CalculateLayout(t) ==
  /\ pc = "idle"
  /\ spec' = [spec EXCEPT !.type = t]
  /\ IF calculateLayoutThrows(build, spec')
     THEN positions' = positions /\ pc' = "threw"
     ELSE positions' = calculateLayout(build, spec') /\ pc' = "laid"
  /\ UNCHANGED <<build, layers, dfs, anchorIn, anchorOut, render, editor, inflight, canvas, storage>>

(* assignLayers(spec.nodes, spec.edges); its callers pass a non-empty node list *)
AssignLayers ==
  /\ pc = "idle"
  /\ Len(spec.nodes) > 0
  /\ layers' = assignLayers(spec.nodes, spec.edges)
  /\ pc' = "layered"
  /\ UNCHANGED <<build, spec, positions, dfs, anchorIn, anchorOut, render, editor, inflight, canvas, storage>>

Next ==
  \/ \E t \in Types : CalculateLayout(t)
  \/ AssignLayers

Spec == Init /\ [][Next]_vars

(* -------- specification of the stepwise run of assignLayers ------------ *)
InitDfs ==
  /\ build = "part011"
  /\ InitCommon

AssignLayersBegin ==
  /\ pc = "idle"
  /\ Len(spec.nodes) > 0
  /\ pc' = "layering"
  /\ dfs' = DfsStart(spec.nodes, spec.edges)
  /\ UNCHANGED <<build, spec, layers, positions, anchorIn, anchorOut, render, editor, inflight, canvas, storage>>

AssignLayerCall ==
  /\ pc = "layering"
  /\ dfs.pc = "run"
  /\ Len(dfs.stack) > 0
  /\ Len(dfs.stack[Len(dfs.stack)].ch) > 0
  /\ dfs.calls < CallCap
  /\ dfs' = assignLayerStep(spec.edges, dfs)
  /\ UNCHANGED <<build, spec, pc, layers, positions, anchorIn, anchorOut, render, editor, inflight, canvas, storage>>

AssignLayerReturn ==
  /\ pc = "layering"
  /\ dfs.pc = "run"
  /\ Len(dfs.stack) > 0
  /\ Len(dfs.stack[Len(dfs.stack)].ch) = 0
  /\ dfs' = [dfs EXCEPT !.stack = SubSeq(@, 1, Len(@) - 1)]
  /\ UNCHANGED <<build, spec, pc, layers, positions, anchorIn, anchorOut, render, editor, inflight, canvas, storage>>

AssignLayersFinish ==
  /\ pc = "layering"
  /\ dfs.pc = "run"
  /\ Len(dfs.stack) = 0
  /\ dfs' = [dfs EXCEPT !.pc = "done", !.layers = FillRemaining(spec.nodes, 1, @)]
  /\ layers' = dfs'.layers
  /\ pc' = "layered"
  /\ UNCHANGED <<build, spec, positions, anchorIn, anchorOut, render, editor, inflight, canvas, storage>>

DfsStep == AssignLayerCall \/ AssignLayerReturn \/ AssignLayersFinish

NextDfs == AssignLayersBegin \/ DfsStep

SpecDfs == InitDfs /\ [][NextDfs]_vars /\ WF_vars(DfsStep)

(* the stepwise run and the recursive operator compute the same Map *)
DfsAgreesWithOperator ==
  pc = "layered" => layers = assignLayers(spec.nodes, spec.edges)

(* ------------- specification of assignLayers on acyclic graphs --------- *)
RECURSIVE ReachableFrom(_, _)
ReachableFrom(edges, S) ==
  LET more == S \cup {edges[i].to : i \in {j \in 1..Len(edges) : edges[j].from \in S}}
  IN IF more = S THEN S ELSE ReachableFrom(edges, more)

Acyclic(edges) ==
  \A i \in 1..Len(edges) : edges[i].from \notin ReachableFrom(edges, {edges[i].to})

InitDag ==
  /\ build = "part011"
  /\ \E n \in 1..MaxDagNodes :
       \E es \in SeqsUpTo(EdgesOver(NodeIds(NodeList(n))), MaxDagEdges) :
         /\ Acyclic(es)
         /\ spec = [type |-> NoType, nodes |-> NodeList(n), edges |-> es]
  /\ pc = "idle"
  /\ layers = <<>>
  /\ positions = EmptyMap
  /\ dfs = DfsIdle
  /\ InitNoAnchor

NextDag == AssignLayers

SpecDag == InitDag /\ [][NextDag]_vars

(* the stepwise run of assignLayers on the acyclic graphs *)
SpecDagDfs == InitDag /\ [][NextDfs]_vars

(* -------------------- specification of anchorOnRect -------------------- *)
InitAnchor ==
  /\ build = "converter"
  /\ spec = [type |-> NoType, nodes |-> <<>>, edges |-> <<>>]
  /\ pc = "idle"
  /\ layers = <<>>
  /\ positions = EmptyMap
  /\ dfs = DfsIdle
  /\ anchorIn \in [a : {Pos(x, y) : x \in AnchorXs, y \in AnchorYs},
                   b : {Pos(x, y) : x \in AnchorXs, y \in AnchorYs},
                   w : AnchorWidths, h : AnchorHeights]
  /\ anchorOut = NoAnchorOut
  /\ render = RenderIdle
  /\ editor = <<>>
  /\ inflight = NoInflight
  /\ canvas = NoCanvas
  /\ storage = NoStorage

AnchorOnRect ==
  /\ pc = "idle"
  /\ anchorOut' = anchorOnRect(anchorIn.a, anchorIn.b, anchorIn.w, anchorIn.h)
  /\ pc' = "anchored"
  /\ UNCHANGED <<build, spec, layers, positions, dfs, anchorIn, render, editor, inflight, canvas, storage>>

NextAnchor == AnchorOnRect

SpecAnchor == InitAnchor /\ [][NextAnchor]_vars

(* ---------------- specification of applyDiagramToEditor ---------------- *)
InitRender ==
  /\ build \in Builds
  /\ \E n \in 0..MaxRenderNodes :
       \E es \in SeqsUpTo(EdgesOver(NodeIds(NodeList(n)) \cup {Ghost}), MaxRenderEdges) :
         \E t \in Types :
           spec = [type |-> t, nodes |-> NodeList(n), edges |-> es]
  /\ pc = "idle"
  /\ layers = <<>>
  /\ positions = EmptyMap
  /\ dfs = DfsIdle
  /\ anchorIn = NoAnchorIn
  /\ anchorOut = NoAnchorOut
  /\ render = RenderIdle
  /\ editor = <<>>
  /\ inflight = NoInflight
  /\ canvas = NoCanvas
  /\ storage = NoStorage

(* a call that starts computeElkLayout without deleting the shapes on the *)
(* canvas                                                                  *)
RenderStartKeepsShapes ==
  /\ render.pc = "idle"
  /\ render' = [render EXCEPT !.pc = "awaitElk", !.elk = "pending",
                               !.elkCalls = @ + 1]
  /\ UNCHANGED <<build, spec, pc, layers, positions, dfs, anchorIn, anchorOut, editor, inflight, canvas, storage>>

(* the call up to its first await: clear the editor, start computeElkLayout *)
RenderStart ==
  /\ render.pc = "idle"
  /\ editor' = <<>>
  /\ render' = [render EXCEPT !.pc = "awaitElk", !.elk = "pending",
                               !.elkCalls = @ + 1]
  /\ UNCHANGED <<build, spec, pc, layers, positions, dfs, anchorIn, anchorOut, inflight, canvas, storage>>

(* elk.layout resolves; the node loop runs to its first await *)
ElkResolve(res) ==
  /\ render.pc = "awaitElk"
  /\ render' = RunNodeLoop(
                 [render EXCEPT !.elk = "resolved",
                                !.nodePositions = layoutWithFallback(build, spec, FALSE, res)],
                 spec.nodes, 1)
  /\ UNCHANGED <<build, spec, pc, layers, positions, dfs, anchorIn, anchorOut, editor, inflight, canvas, storage>>

(* a catch block that calls computeElkLayout a second time before it falls *)
(* back to calculateLayout                                                  *)
ElkRejectRetriesOnce ==
  /\ render.pc = "awaitElk"
  /\ render' =
       IF render.elkCalls < 2
       THEN [render EXCEPT !.elkCalls = @ + 1]
       ELSE RunNodeLoop(
              [render EXCEPT !.elk = "rejected", !.layoutCalls = @ + 1,
                             !.nodePositions = layoutWithFallback(build, spec, TRUE, EmptyMap)],
              spec.nodes, 1)
  /\ UNCHANGED <<build, spec, pc, layers, positions, dfs, anchorIn, anchorOut, editor, inflight, canvas, storage>>

(* computeElkLayout rejects; the catch block runs calculateLayout *)
ElkReject ==
  /\ render.pc = "awaitElk"
  /\ render' =
       IF calculateLayoutThrows(build, spec)
       THEN [render EXCEPT !.elk = "rejected", !.pc = "finished", !.failed = TRUE,
                           !.layoutCalls = @ + 1]
       ELSE RunNodeLoop(
              [render EXCEPT !.elk = "rejected", !.layoutCalls = @ + 1,
                             !.nodePositions = layoutWithFallback(build, spec, TRUE, EmptyMap)],
              spec.nodes, 1)
  /\ UNCHANGED <<build, spec, pc, layers, positions, dfs, anchorIn, anchorOut, editor, inflight, canvas, storage>>

(* the stagger timeout of node i ends: createShape, then on to the next await *)
NodeCreate ==
  /\ render.pc = "nodeWait"
  /\ LET node == spec.nodes[render.i]
     IN /\ editor' = Append(editor, GeoShape(build, render.shapeIds[node.id], node,
                                             render.nodePositions[node.id]))
        /\ render' = RunNodeLoop(render, spec.nodes, render.i + 1)
  /\ UNCHANGED <<build, spec, pc, layers, positions, dfs, anchorIn, anchorOut, inflight, canvas, storage>>

(* the timeout set after the node loop fires: one arrow per drawable edge *)
EdgeTimerFires ==
  /\ render.pc = "resolved"
  /\ LET out == CreateArrows(build, spec, 1, render, editor)
     IN /\ editor' = out.shapes
        /\ render' = [out.render EXCEPT !.pc = "finished"]
  /\ UNCHANGED <<build, spec, pc, layers, positions, dfs, anchorIn, anchorOut, inflight, canvas, storage>>

NextRender ==
  \/ RenderStart
  \/ \E res \in ElkResults(spec) : ElkResolve(res)
  \/ ElkReject
  \/ NodeCreate
  \/ EdgeTimerFires

SpecRender == InitRender /\ [][NextRender]_vars

(* The same procedure with the progress the event loop gives: a call that  *)
(* was made runs, and a timer that was set fires.  Nothing in the code     *)
(* makes the promise of elk.layout settle, so ElkResolve and ElkReject     *)
(* carry no fairness.                                                      *)
SpecRenderFair ==
  /\ InitRender
  /\ [][NextRender]_vars
  /\ WF_vars(RenderStart)
  /\ WF_vars(NodeCreate)
  /\ WF_vars(EdgeTimerFires)

(* ------- two calls of applyDiagramToEditor on the same editor ---------- *)
(* DiagramCanvas calls applyDiagramToEditor from an effect on [spec,       *)
(* messageId] and from the Reset button; the Tldraw editor is mounted once *)
(* and neither call site keeps a handle on the previous call.              *)
MaxStaleEdges ==
  1

(* the specs of the two calls: flowcharts whose edges join existing nodes *)
StaleSpecs ==
  UNION {{[type |-> "flowchart", nodes |-> NodeList(n), edges |-> es] :
            es \in SeqsUpTo(EdgesOver(NodeIds(NodeList(n))), MaxStaleEdges)} :
         n \in 0..MaxRenderNodes}

(* createShapeId() never repeats: the second call draws its ids above every *)
(* id the first call can draw                                              *)
SecondCallIds == MaxRenderNodes + MaxRenderEdges + 1

InitStale ==
  /\ build \in Builds
  /\ spec \in StaleSpecs
  /\ pc = "idle"
  /\ layers = <<>>
  /\ positions = EmptyMap
  /\ dfs = DfsIdle
  /\ InitNoAnchor

(* the effect runs again with the spec s2 (or Reset is clicked) while the  *)
(* call made for the current spec is at an await or has its edge timer     *)
(* pending: the new call clears the editor and starts computeElkLayout     *)
SpecArrives(s2) ==
  /\ ~inflight.active
  /\ render.pc \in {"awaitElk", "nodeWait", "resolved"}
  /\ inflight' = [active |-> TRUE, spec |-> spec, render |-> render]
  /\ spec' = s2
  /\ editor' = <<>>
  /\ render' = [RenderIdle EXCEPT !.pc = "awaitElk", !.elk = "pending",
                                  !.elkCalls = 1, !.nextId = SecondCallIds]
  /\ UNCHANGED <<build, pc, layers, positions, dfs, anchorIn, anchorOut, canvas, storage>>

(* the steps of the earlier call, on its own spec and locals *)
StaleElkResolve(res) ==
  /\ inflight.active
  /\ inflight.render.pc = "awaitElk"
  /\ inflight' = [inflight EXCEPT !.render =
                    RunNodeLoop(
                      [@ EXCEPT !.elk = "resolved",
                                !.nodePositions =
                                   layoutWithFallback(build, inflight.spec, FALSE, res)],
                      inflight.spec.nodes, 1)]
  /\ UNCHANGED <<build, spec, pc, layers, positions, dfs, anchorIn, anchorOut, render, editor, canvas, storage>>

StaleElkReject ==
  /\ inflight.active
  /\ inflight.render.pc = "awaitElk"
  /\ inflight' = [inflight EXCEPT !.render =
                    IF calculateLayoutThrows(build, inflight.spec)
                    THEN [@ EXCEPT !.elk = "rejected", !.pc = "finished", !.failed = TRUE,
                                   !.layoutCalls = @ + 1]
                    ELSE RunNodeLoop(
                           [@ EXCEPT !.elk = "rejected", !.layoutCalls = @ + 1,
                                     !.nodePositions =
                                        layoutWithFallback(build, inflight.spec, TRUE, EmptyMap)],
                           inflight.spec.nodes, 1)]
  /\ UNCHANGED <<build, spec, pc, layers, positions, dfs, anchorIn, anchorOut, render, editor, canvas, storage>>

StaleNodeCreate ==
  /\ inflight.active
  /\ inflight.render.pc = "nodeWait"
  /\ LET r == inflight.render
         node == inflight.spec.nodes[r.i]
     IN /\ editor' = Append(editor, GeoShape(build, r.shapeIds[node.id], node,
                                             r.nodePositions[node.id]))
        /\ inflight' = [inflight EXCEPT !.render =
                          RunNodeLoop(r, inflight.spec.nodes, r.i + 1)]
  /\ UNCHANGED <<build, spec, pc, layers, positions, dfs, anchorIn, anchorOut, render, canvas, storage>>

StaleEdgeTimerFires ==
  /\ inflight.active
  /\ inflight.render.pc = "resolved"
  /\ LET out == CreateArrows(build, inflight.spec, 1, inflight.render, editor)
     IN /\ editor' = out.shapes
        /\ inflight' = [inflight EXCEPT !.render = [out.render EXCEPT !.pc = "finished"]]
  /\ UNCHANGED <<build, spec, pc, layers, positions, dfs, anchorIn, anchorOut, render, canvas, storage>>

NextStale ==
  \/ RenderStart
  \/ \E res \in ElkResults(spec) : ElkResolve(res)
  \/ ElkReject
  \/ NodeCreate
  \/ EdgeTimerFires
  \/ \E s2 \in StaleSpecs : SpecArrives(s2)
  \/ \E res \in ElkResults(inflight.spec) : StaleElkResolve(res)
  \/ StaleElkReject
  \/ StaleNodeCreate
  \/ StaleEdgeTimerFires

SpecStale == InitStale /\ [][NextStale]_vars

(* ------------- specification of the sequence strategy ----------------- *)
MaxSeqNodes ==
  4
MaxSeqEdges ==
  3

InitSeq ==
  /\ build \in Builds
  /\ \E n \in 1..MaxSeqNodes :
       \E es \in SeqsUpTo(EdgesOver(NodeIds(NodeList(n))), MaxSeqEdges) :
         spec = [type |-> NoType, nodes |-> NodeList(n), edges |-> es]
  /\ pc = "idle"
  /\ layers = <<>>
  /\ positions = EmptyMap
  /\ dfs = DfsIdle
  /\ InitNoAnchor

NextSeq == CalculateLayout("sequence")

SpecSeq == InitSeq /\ [][NextSeq]_vars

(* ------- calculateLayout on network diagrams (ten-strategy revision) --- *)
MaxNetNodes ==
  5
MaxNetEdges ==
  2

InitNet ==
  /\ build = "part011"
  /\ \E n \in 1..MaxNetNodes :
       \E es \in SeqsUpTo(EdgesOver(NodeIds(NodeList(n))), MaxNetEdges) :
         spec = [type |-> NoType, nodes |-> NodeList(n), edges |-> es]
  /\ pc = "idle"
  /\ layers = <<>>
  /\ positions = EmptyMap
  /\ dfs = DfsIdle
  /\ InitNoAnchor

NextNet == CalculateLayout("network")

SpecNet == InitNet /\ [][NextNet]_vars

(* ------- applyDiagramToEditor on an editor that may show a diagram ----- *)
(* what the editor argument may hold when the call is made: nothing, or   *)
(* the shapes of an earlier diagram                                        *)
LeftoverShapes ==
  {<<>>,
   <<GeoShape("part011", 90, Node(1), Pos(12, 12)), GeoShape("part011", 91, Node(2), Pos(382, 12)),
     ArrowShape("part011", 92, Edge("A", "B"), NodeList(2),
                [id \in {"A", "B"} |-> IF id = "A" THEN Pos(12, 12) ELSE Pos(382, 12)]),
     GeoShape("part011", 93, Node(3), Pos(12, 200))>>}

InitRerender ==
  /\ build \in Builds
  /\ \E n \in 0..MaxRenderNodes :
       \E es \in SeqsUpTo(EdgesOver(NodeIds(NodeList(n)) \cup {Ghost}), MaxRenderEdges) :
         \E t \in Types :
           spec = [type |-> t, nodes |-> NodeList(n), edges |-> es]
  /\ pc = "idle"
  /\ layers = <<>>
  /\ positions = EmptyMap
  /\ dfs = DfsIdle
  /\ anchorIn = NoAnchorIn
  /\ anchorOut = NoAnchorOut
  /\ render = RenderIdle
  /\ editor \in LeftoverShapes
  /\ inflight = NoInflight
  /\ canvas = NoCanvas
  /\ storage = NoStorage

SpecRerender == InitRerender /\ [][NextRender]_vars

(* ------- applyDiagramToEditor on nodes with labels of several lengths -- *)
MaxArrowEdges ==
  2

(* label lengths: a short label, one between the two width formulas' caps, *)
(* and a long one                                                          *)
LabelLengths == {5, 24, 40}

(* kinds: one drawn as a geo shape with a 2-unit icon, one drawn as a     *)
(* sticky note, and one whose icon differs between the two revisions      *)
NodeKinds == {"service", "note", "server"}

LabelledNodeLists ==
  UNION {{[i \in 1..n |-> KindedNode(i, lens[i], kinds[i])] :
            lens \in [1..n -> LabelLengths], kinds \in [1..n -> NodeKinds]} :
         n \in 0..MaxRenderNodes}

InitArrows ==
  /\ build \in Builds
  /\ \E nodes \in LabelledNodeLists :
       \E es \in SeqsUpTo(EdgesOver(NodeIds(nodes) \cup {Ghost}), MaxArrowEdges) :
         spec = [type |-> "flowchart", nodes |-> nodes, edges |-> es]
  /\ pc = "idle"
  /\ layers = <<>>
  /\ positions = EmptyMap
  /\ dfs = DfsIdle
  /\ InitNoAnchor

SpecArrows == InitArrows /\ [][NextRender]_vars

(* --------------------- diagramStorage: specSignature ------------------- *)
SNAPSHOT_VERSION ==
  1

(* UTF-16 code units of the texts JSON.stringify writes *)
CodeOfId(id) ==
  CASE id = "A" -> 65 [] id = "B" -> 66 [] id = "C" -> 67 [] id = "D" -> 68
    [] id = "E" -> 69 [] id = "F" -> 70 [] id = "Z" -> 90

CodesOfType(t) ==
    CASE t = "directed-graph" -> <<100, 105, 114, 101, 99, 116, 101, 100, 45, 103, 114, 97, 112, 104>>
      [] t = "sequence" -> <<115, 101, 113, 117, 101, 110, 99, 101>>
      [] t = "tree" -> <<116, 114, 101, 101>>
      [] t = "flowchart" -> <<102, 108, 111, 119, 99, 104, 97, 114, 116>>
      [] t = "state-machine" -> <<115, 116, 97, 116, 101, 45, 109, 97, 99, 104, 105, 110, 101>>
      [] t = "entity-relationship" -> <<101, 110, 116, 105, 116, 121, 45, 114, 101, 108, 97, 116, 105, 111, 110, 115, 104, 105, 112>>
      [] t = "network" -> <<110, 101, 116, 119, 111, 114, 107>>
      [] t = "timeline" -> <<116, 105, 109, 101, 108, 105, 110, 101>>
      [] t = "class-diagram" -> <<99, 108, 97, 115, 115, 45, 100, 105, 97, 103, 114, 97, 109>>
      [] t = "deployment" -> <<100, 101, 112, 108, 111, 121, 109, 101, 110, 116>>
      [] t = "mindmap" -> <<109, 105, 110, 100, 109, 97, 112>>

(* a label of length n stands for the text of n letters x *)
RECURSIVE CodesOfLabel(_)
CodesOfLabel(len) == IF len = 0 THEN <<>> ELSE <<120>> \o CodesOfLabel(len - 1)

(* the char codes of the kinds the specs are made of *)
CodesOfKind(kind) ==
  CASE kind = "service" -> <<115, 101, 114, 118, 105, 99, 101>>
    [] kind = "server" -> <<115, 101, 114, 118, 101, 114>>
    [] kind = "note" -> <<110, 111, 116, 101>>

(* {"id":"A","label":"xxxxx","kind":"service"} *)
CodesOfNode(node) ==
  <<123, 34, 105, 100, 34, 58, 34>> \o <<CodeOfId(node.id)>>
  \o <<34, 44, 34, 108, 97, 98, 101, 108, 34, 58, 34>> \o CodesOfLabel(node.label)
  \o <<34, 44, 34, 107, 105, 110, 100, 34, 58, 34>> \o CodesOfKind(node.kind) \o <<34, 125>>

(* {"from":"A","to":"B"}: an edge without a label *)
CodesOfEdge(e) ==
  <<123, 34, 102, 114, 111, 109, 34, 58, 34>> \o <<CodeOfId(e.from)>>
  \o <<34, 44, 34, 116, 111, 34, 58, 34>> \o <<CodeOfId(e.to)>> \o <<34, 125>>

RECURSIVE CodesJoined(_, _, _)
CodesJoined(items, CodesOf(_), i) ==
  IF i > Len(items) THEN <<>>
  ELSE (IF i > 1 THEN <<44>> ELSE <<>>) \o CodesOf(items[i]) \o CodesJoined(items, CodesOf, i + 1)

(* [...spec.nodes].sort((a, b) => a.id.localeCompare(b.id)) *)
signatureNodes(nodes) ==
  LET n == Len(nodes)
      Before(i, j) ==
        \/ CodeOfId(nodes[i].id) < CodeOfId(nodes[j].id)
        \/ CodeOfId(nodes[i].id) = CodeOfId(nodes[j].id) /\ i < j
      Rank(i) == Cardinality({j \in 1..n : Before(j, i)}) + 1
  IN [r \in 1..n |-> nodes[CHOOSE i \in 1..n : Rank(i) = r]]

(* [...spec.edges].sort by from, then to, then label (absent: all equal) *)
signatureEdges(edges) ==
  LET n == Len(edges)
      Before(i, j) ==
        \/ CodeOfId(edges[i].from) < CodeOfId(edges[j].from)
        \/ /\ edges[i].from = edges[j].from
           /\ CodeOfId(edges[i].to) < CodeOfId(edges[j].to)
        \/ edges[i].from = edges[j].from /\ edges[i].to = edges[j].to /\ i < j
      Rank(i) == Cardinality({j \in 1..n : Before(j, i)}) + 1
  IN [r \in 1..n |-> edges[CHOOSE i \in 1..n : Rank(i) = r]]

(* JSON.stringify({ type, title, nodes, edges }); an undefined type or    *)
(* title is left out of the text                                           *)
signaturePayload(s) ==
  <<123>>
  \o (IF s.type = NoType THEN <<>>
      ELSE <<34, 116, 121, 112, 101, 34, 58, 34>> \o CodesOfType(s.type) \o <<34, 44>>)
  \o <<34, 110, 111, 100, 101, 115, 34, 58, 91>> \o CodesJoined(signatureNodes(s.nodes), CodesOfNode, 1)
  \o <<93, 44, 34, 101, 100, 103, 101, 115, 34, 58, 91>> \o CodesJoined(signatureEdges(s.edges), CodesOfEdge, 1)
  \o <<93, 125>>

(* one round of the loop: hash = (((hash << 5) + hash) + code) >>> 0, on *)
(* a uint32 kept as its two 16-bit halves <<high, low>>                    *)
djb2Step(hash, code) ==
  LET low == 33 * hash[2] + code
      high == 33 * hash[1] + (low \div 65536)
  IN <<high % 65536, low % 65536>>

(* the loop over the code units from..to of the payload, started at hash; *)
(* the range is cut in two so that the evaluation stays shallow            *)
RECURSIVE djb2(_, _, _, _)
djb2(payload, from, to, hash) ==
  IF hash[1] < 0 \/ from > to THEN hash
  ELSE IF from = to THEN djb2Step(hash, payload[from])
  ELSE LET mid == (from + to) \div 2
       IN djb2(payload, mid + 1, to, djb2(payload, from, mid, hash))

(* `v${SNAPSHOT_VERSION}_${hash.toString(16)}`: the version and the hash *)
specSignature(s) ==
  LET payload == signaturePayload(s)
  IN <<SNAPSHOT_VERSION>> \o djb2(payload, 1, Len(payload), <<0, 5381>>)

(* ------------- diagramStorage: saveSnapshot, loadSnapshot -------------- *)
(* In the three operations sig stands for specSignature(spec) of the spec *)
(* argument: the callers below compute it once and pass it on.            *)

(* localStorage.setItem(key, JSON.stringify(data)); when setItem throws   *)
(* (quota, privacy) the error is caught and the item stays as it was      *)
saveSnapshot(items, messageId, sig, snapshot, setItemThrows) ==
  IF setItemThrows THEN items
  ELSE [items EXCEPT ![messageId] = DataItem(SNAPSHOT_VERSION, sig, snapshot)]

(* a loadSnapshot that returns the stored snapshot of any spec *)
loadSnapshotAnySignature(items, messageId, currentSig) ==
  LET data == items[messageId]
  IN IF data.kind = "data" /\ data.version = SNAPSHOT_VERSION
     THEN data.snapshot ELSE NoSnapshot

(* the snapshot read back, or null: nothing stored, a text that does not  *)
(* parse to an object, another version or another signature               *)
loadSnapshot(items, messageId, currentSig) ==
  LET data == items[messageId]
  IN IF data.kind = "none" THEN NoSnapshot
     ELSE IF data.kind = "garbage" THEN NoSnapshot
     ELSE IF data.version # SNAPSHOT_VERSION THEN NoSnapshot
     ELSE IF data.sig # currentSig THEN NoSnapshot
     ELSE data.snapshot

clearSnapshot(items, messageId) == [items EXCEPT ![messageId] = NoItem]

(* ------------------- specification of diagramStorage ------------------- *)
(* specs the calls are made with; the first two differ in the order of   *)
(* their edges only                                                        *)
StorageSpecs ==
  {[type |-> "flowchart", nodes |-> NodeList(2), edges |-> <<Edge("A", "B"), Edge("B", "A")>>],
   [type |-> "flowchart", nodes |-> NodeList(2), edges |-> <<Edge("B", "A"), Edge("A", "B")>>],
   [type |-> NoType, nodes |-> NodeList(2), edges |-> <<Edge("A", "B"), Edge("B", "A")>>]}

StorageSnapshots ==
  {Snapshot({Shape("m1", "node", 0)}),
   Snapshot({Shape("m1", "node", 0), Shape("m1", "arrow", 0)})}

(* what another program or another version of this one left in storage *)
ForeignItems(specs) ==
  {NoItem, GarbageItem}
  \cup {DataItem(SNAPSHOT_VERSION + 1, specSignature(s), Snapshot({})) :
          s \in {t \in specs : t.type = NoType}}

InitStorage ==
  /\ build = "converter"
  /\ spec = [type |-> NoType, nodes |-> <<>>, edges |-> <<>>]
  /\ pc = "idle"
  /\ layers = <<>>
  /\ positions = EmptyMap
  /\ dfs = DfsIdle
  /\ anchorIn = NoAnchorIn
  /\ anchorOut = NoAnchorOut
  /\ render = RenderIdle
  /\ editor = <<>>
  /\ inflight = NoInflight
  /\ canvas = NoCanvas
  /\ \E items \in [CanvasMessages -> ForeignItems(StorageSpecs)] :
       storage = [NoStorage EXCEPT !.items = items]

SaveSnapshot(m, sig, snapshot, setItemThrows) ==
  /\ storage' = [storage EXCEPT
       !.items = saveSnapshot(@, m, sig, snapshot, setItemThrows),
       !.lastSave[m] = SaveOf(sig, snapshot),
       !.lastWritten[m] = IF setItemThrows THEN @ ELSE SaveOf(sig, snapshot),
       !.lastLoad = NoLoad]
  /\ UNCHANGED <<build, spec, pc, layers, positions, dfs, anchorIn, anchorOut, render,
                 editor, inflight, canvas>>

LoadSnapshot(m, sig) ==
  /\ storage' = [storage EXCEPT
       !.lastLoad = [made |-> TRUE, msg |-> m, sig |-> sig,
                     value |-> loadSnapshot(storage.items, m, sig)]]
  /\ UNCHANGED <<build, spec, pc, layers, positions, dfs, anchorIn, anchorOut, render,
                 editor, inflight, canvas>>

ClearSnapshot(m) ==
  /\ storage' = [storage EXCEPT
       !.items = clearSnapshot(@, m),
       !.lastSave[m] = NoSave,
       !.lastWritten[m] = NoSave,
       !.lastLoad = NoLoad]
  /\ UNCHANGED <<build, spec, pc, layers, positions, dfs, anchorIn, anchorOut, render,
                 editor, inflight, canvas>>

NextStorage ==
  \/ \E s \in StorageSpecs : \E sig \in {specSignature(s)} :
       \/ \E m \in CanvasMessages : \E snapshot \in StorageSnapshots :
            \E setItemThrows \in BOOLEAN : SaveSnapshot(m, sig, snapshot, setItemThrows)
       \/ \E m \in CanvasMessages : LoadSnapshot(m, sig)
  \/ \E m \in CanvasMessages : ClearSnapshot(m)

SpecStorage == InitStorage /\ [][NextStorage]_vars

(* -------------------- specification of DiagramCanvas ------------------- *)
(* actions of the user in one behaviour: selecting a message, resetting, *)
(* zooming, leaving the diagram                                            *)
MaxGestures ==
  3

(* the spec prop that comes with each message: one node and a self-loop *)
CanvasSpec(m) ==
  [type |-> IF m = "m1" THEN "flowchart" ELSE "tree",
   nodes |-> NodeList(1), edges |-> <<Edge("A", "A")>>]

CanvasSignatures == [m \in CanvasMessages |-> specSignature(CanvasSpec(m))]

(* the applyDiagramToEditor call started after the id-th action of the    *)
(* user and before the next, made with the spec of the message s while    *)
(* the messageId prop was m (NoMessage: undefined), by where it           *)
(* is: at the await of computeElkLayout, at the await before createShape  *)
(* of its node, returned with the timer of its arrows pending, or with    *)
(* the timer pending that ends the fade of its arrow                      *)
Call(m, s, id, stage) == [msg |-> m, specOf |-> s, id |-> id, stage |-> stage]

WithoutCall(calls, k) == [j \in 1..(Len(calls) - 1) |-> IF j < k THEN calls[j] ELSE calls[j + 1]]

(* a call whose .then callback will still take the snapshot of its editor *)
(* and keep it under a messageId                                           *)
WillStore(c) == c.msg # NoMessage /\ c.stage \in {"awaitElk", "nodeWait"}

StillRead(calls) == \E k \in 1..Len(calls) : WillStore(calls[k])

(* the editor of a component that was unmounted, with the calls that run  *)
(* on it; it is part of the state as long as one of them will still store *)
(* its snapshot (what tldraw does with a call on the editor of an         *)
(* unmounted component is not in this repository: the call goes on as on  *)
(* a mounted one, or throws)                                               *)
DetachedEditor(content, calls) == [content |-> content, calls |-> calls]

WithDetached(detached, content, calls) ==
  IF StillRead(calls) THEN detached \cup {DetachedEditor(content, calls)} ELSE detached

(* the storage of an earlier session: nothing, an unreadable text, or the *)
(* snapshot of the message's finished diagram                             *)
EarlierItems(m, sigs) ==
  {NoItem, GarbageItem,
   DataItem(SNAPSHOT_VERSION, sigs[m], Snapshot({Shape(m, "node", 0), Shape(m, "arrow", 0)}))}

(* no message has a diagram selected and the component is not mounted,    *)
(* under a parent that gives a messageId or under one that gives none     *)
InitCanvas ==
  /\ build = "converter"
  /\ spec = [type |-> NoType, nodes |-> <<>>, edges |-> <<>>]
  /\ pc = "idle"
  /\ layers = <<>>
  /\ positions = EmptyMap
  /\ dfs = DfsIdle
  /\ anchorIn = NoAnchorIn
  /\ anchorOut = NoAnchorOut
  /\ render = RenderIdle
  /\ editor = <<>>
  /\ inflight = NoInflight
  /\ \E b \in BOOLEAN : canvas = [NoCanvas EXCEPT !.idParent = b]
  /\ \E sigs \in {CanvasSignatures} :
       \E items \in [CanvasMessages -> UNION {EarlierItems(m, sigs) : m \in CanvasMessages}] :
         /\ \A m \in CanvasMessages : items[m] \in EarlierItems(m, sigs)
         /\ storage = [NoStorage EXCEPT !.items = items]

(* a run of the effect on [spec, messageId, editorReady] with the editor  *)
(* there, on the component c whose props are the messageId m and the spec *)
(* of s: the cached snapshot is loaded, else the stored one, else         *)
(* applyDiagramToEditor is called, up to its first await                  *)
EffectRun(c, m, s, sigs) ==
  LET cached == c.cache[m]
      stored == loadSnapshot(storage.items, m, sigs[s])
  IN IF cached.present
     THEN [c EXCEPT !.restoring = TRUE, !.content = cached.shapes, !.changed = TRUE,
                    !.readStorage = FALSE]
     ELSE IF stored.present
     THEN [c EXCEPT !.restoring = TRUE, !.content = stored.shapes, !.changed = TRUE,
                    !.cache[m] = stored, !.readStorage = TRUE]
     ELSE [c EXCEPT !.content = {},
                    !.changed = @ \/ c.content # {},
                    !.calls = Append(@, Call(m, s, c.gestures, "awaitElk")),
                    !.readStorage = TRUE]

(* an effect run that goes to the storage and the spec whatever the cache *)
(* holds                                                                   *)
SelectMessageIgnoresCache(m, sigs) ==
  /\ canvas.idParent
  /\ canvas.gestures < MaxGestures
  /\ m # canvas.messageId
  /\ LET c == [canvas EXCEPT !.gestures = @ + 1, !.messageId = m, !.specOf = m]
         stored == loadSnapshot(storage.items, m, sigs[m])
     IN canvas' =
          IF ~canvas.ready THEN c
          ELSE IF stored.present
          THEN [c EXCEPT !.restoring = TRUE, !.content = stored.shapes, !.changed = TRUE,
                         !.cache[m] = stored, !.readStorage = TRUE]
          ELSE [c EXCEPT !.content = {},
                         !.changed = @ \/ c.content # {},
                         !.calls = Append(@, Call(m, m, c.gestures, "awaitElk")),
                         !.readStorage = TRUE]
  /\ UNCHANGED <<build, spec, pc, layers, positions, dfs, anchorIn, anchorOut, render,
                 editor, inflight, storage>>

(* under a parent that gives a messageId (src/unnamed/part_008:216), the  *)
(* props become the spec of m and messageId m, on the mounted component   *)
(* or on one mounted now. With the editor there, the listener of the old  *)
(* message is removed, the effect runs and the listener is registered for *)
(* m; as long as Tldraw has not called onMount, both effects return at    *)
(* their first line                                                        *)
SelectMessage(m, sigs) ==
  /\ canvas.idParent
  /\ canvas.gestures < MaxGestures
  /\ m # canvas.messageId
  /\ LET c == [canvas EXCEPT !.gestures = @ + 1, !.messageId = m, !.specOf = m]
     IN canvas' = IF canvas.ready THEN EffectRun(c, m, m, sigs) ELSE c
  /\ UNCHANGED <<build, spec, pc, layers, positions, dfs, anchorIn, anchorOut, render,
                 editor, inflight, storage>>

(* under a parent that gives no messageId (DiagramPanel.tsx:100), the     *)
(* spec prop becomes the spec of s, on the mounted component or on one    *)
(* mounted now: the effect returns at its first line, no listener is or   *)
(* gets registered, a mounted editor keeps what it holds                  *)
ShowSpec(s) ==
  /\ ~canvas.idParent
  /\ canvas.gestures < MaxGestures
  /\ canvas.specOf # s
  /\ canvas' = [canvas EXCEPT !.gestures = @ + 1, !.specOf = s, !.readStorage = FALSE]
  /\ UNCHANGED <<build, spec, pc, layers, positions, dfs, anchorIn, anchorOut, render,
                 editor, inflight, storage>>

(* Tldraw calls onMount on the mounted component: handleMount keeps the   *)
(* editor and sets editorReady, which runs both effects again, with the   *)
(* props of that moment; without a messageId they return at once          *)
HandleMount(sigs) ==
  /\ canvas.specOf # NoMessage
  /\ ~canvas.ready
  /\ LET c == [canvas EXCEPT !.ready = TRUE]
     IN canvas' = IF canvas.messageId # NoMessage
                  THEN EffectRun(c, canvas.messageId, canvas.specOf, sigs)
                  ELSE c
  /\ UNCHANGED <<build, spec, pc, layers, positions, dfs, anchorIn, anchorOut, render,
                 editor, inflight, storage>>

(* the parent has no diagram to show any more (the selection is cleared,  *)
(* src/unnamed/part_008:58 and 137, or the messages are, App.tsx:34) and  *)
(* unmounts the component: the listener is removed and the editor and     *)
(* the refs go with the component, the cache and the storage stay; a      *)
(* pending debounce timer and the unfinished calls are not cancelled      *)
Unmount ==
  /\ canvas.specOf # NoMessage
  /\ canvas.gestures < MaxGestures
  /\ canvas' = [canvas EXCEPT
       !.gestures = @ + 1,
       !.messageId = NoMessage, !.specOf = NoMessage, !.ready = FALSE, !.content = {},
       !.calls = <<>>, !.restoring = FALSE, !.changed = FALSE,
       !.saveTimer = NoTimer, !.readStorage = FALSE,
       !.orphanSaves = IF canvas.saveTimer.active THEN @ \cup {canvas.saveTimer} ELSE @,
       !.detached = WithDetached(@, canvas.content, canvas.calls)]
  /\ UNCHANGED <<build, spec, pc, layers, positions, dfs, anchorIn, anchorOut, render,
                 editor, inflight, storage>>

(* the Reset button: when there is a messageId, delete its cache entry    *)
(* and its stored snapshot; then, if the editor is there, clear it and    *)
(* call applyDiagramToEditor with the spec prop                           *)
Reset ==
  /\ canvas.specOf # NoMessage
  /\ canvas.gestures < MaxGestures
  /\ LET c == [canvas EXCEPT
                !.gestures = @ + 1,
                !.cache = IF canvas.messageId # NoMessage
                          THEN [@ EXCEPT ![canvas.messageId] = NoSnapshot] ELSE @]
     IN canvas' =
          IF canvas.ready
          THEN [c EXCEPT
                 !.content = {},
                 !.changed = @ \/ canvas.content # {},
                 !.calls = Append(@, Call(canvas.messageId, canvas.specOf, c.gestures,
                                          "awaitElk"))]
          ELSE c
  /\ storage' = IF canvas.messageId # NoMessage
                THEN [storage EXCEPT !.items = clearSnapshot(@, canvas.messageId)]
                ELSE storage
  /\ UNCHANGED <<build, spec, pc, layers, positions, dfs, anchorIn, anchorOut, render,
                 editor, inflight>>

(* the layout of call k settles; its node loop runs to the await before  *)
(* createShape                                                             *)
CanvasLayoutSettles(k) ==
  /\ k \in 1..Len(canvas.calls)
  /\ canvas.calls[k].stage = "awaitElk"
  /\ canvas' = [canvas EXCEPT !.calls[k].stage = "nodeWait"]
  /\ UNCHANGED <<build, spec, pc, layers, positions, dfs, anchorIn, anchorOut, render,
                 editor, inflight, storage>>

(* call k creates its node shape, sets the timer of its arrows and        *)
(* returns; the .then callback caches and stores editor.getSnapshot()     *)
(* under the messageId the call was made with, and does neither when the  *)
(* call was made by Reset without a messageId (the writes to the storage  *)
(* succeed here; the specification of diagramStorage has the failing ones) *)
CanvasCallResolves(k, sigs) ==
  /\ k \in 1..Len(canvas.calls)
  /\ canvas.calls[k].stage = "nodeWait"
  /\ LET c == canvas.calls[k]
         shapes == canvas.content \cup {Shape(c.specOf, "node", c.id)}
     IN /\ canvas' = [canvas EXCEPT
             !.content = shapes, !.changed = TRUE,
             !.cache = IF c.msg # NoMessage
                       THEN [@ EXCEPT ![c.msg] = Snapshot(shapes)] ELSE @,
             !.calls[k].stage = "edgeTimer"]
        /\ storage' = IF c.msg # NoMessage
                      THEN [storage EXCEPT
                              !.items = saveSnapshot(@, c.msg, sigs[c.specOf],
                                                     Snapshot(shapes), FALSE)]
                      ELSE storage
  /\ UNCHANGED <<build, spec, pc, layers, positions, dfs, anchorIn, anchorOut, render,
                 editor, inflight>>

(* the timer of call k fires: its arrow is created, transparent, and the *)
(* timer of its fade is set                                                *)
CanvasEdgeTimerFires(k) ==
  /\ k \in 1..Len(canvas.calls)
  /\ canvas.calls[k].stage = "edgeTimer"
  /\ canvas' = [canvas EXCEPT
       !.content = @ \cup {Shape(canvas.calls[k].specOf, "arrow", canvas.calls[k].id)},
       !.changed = TRUE,
       !.calls[k].stage = "fadeTimer"]
  /\ UNCHANGED <<build, spec, pc, layers, positions, dfs, anchorIn, anchorOut, render,
                 editor, inflight, storage>>

(* the fade timer of call k fires: updateShape sets the opacity of its    *)
(* arrow, which changes the store when the editor still holds that arrow  *)
(* and nothing when a cleared editor or a loaded snapshot has removed it  *)
CanvasFadeTimerFires(k) ==
  /\ k \in 1..Len(canvas.calls)
  /\ canvas.calls[k].stage = "fadeTimer"
  /\ LET c == canvas.calls[k]
     IN canvas' = [canvas EXCEPT
          !.changed = @ \/ Shape(c.specOf, "arrow", c.id) \in canvas.content,
          !.calls = WithoutCall(@, k)]
  /\ UNCHANGED <<build, spec, pc, layers, positions, dfs, anchorIn, anchorOut, render,
                 editor, inflight, storage>>

(* the layout of call k on the detached editor d settles *)
DetachedLayoutSettles(d, k) ==
  /\ d \in canvas.detached
  /\ k \in 1..Len(d.calls)
  /\ d.calls[k].stage = "awaitElk"
  /\ canvas' = [canvas EXCEPT !.detached =
       WithDetached(@ \ {d}, d.content, [d.calls EXCEPT ![k].stage = "nodeWait"])]
  /\ UNCHANGED <<build, spec, pc, layers, positions, dfs, anchorIn, anchorOut, render,
                 editor, inflight, storage>>

(* call k on the detached editor d creates its node shape there and       *)
(* returns; the .then callback caches and stores the snapshot of that     *)
(* editor under the messageId the call was made with                      *)
DetachedCallResolves(d, k, sigs) ==
  /\ d \in canvas.detached
  /\ k \in 1..Len(d.calls)
  /\ d.calls[k].stage = "nodeWait"
  /\ LET c == d.calls[k]
         shapes == d.content \cup {Shape(c.specOf, "node", c.id)}
     IN /\ canvas' = [canvas EXCEPT
             !.cache = IF c.msg # NoMessage
                       THEN [@ EXCEPT ![c.msg] = Snapshot(shapes)] ELSE @,
             !.detached = WithDetached(@ \ {d}, shapes,
                                       [d.calls EXCEPT ![k].stage = "edgeTimer"])]
        /\ storage' = IF c.msg # NoMessage
                      THEN [storage EXCEPT
                              !.items = saveSnapshot(@, c.msg, sigs[c.specOf],
                                                     Snapshot(shapes), FALSE)]
                      ELSE storage
  /\ UNCHANGED <<build, spec, pc, layers, positions, dfs, anchorIn, anchorOut, render,
                 editor, inflight>>

(* createShape of call k throws on the detached editor d, which was       *)
(* disposed with its component: the call rejects, .catch(console.error)   *)
(* logs it and nothing is cached or stored                                 *)
DetachedCallThrows(d, k) ==
  /\ d \in canvas.detached
  /\ k \in 1..Len(d.calls)
  /\ d.calls[k].stage = "nodeWait"
  /\ canvas' = [canvas EXCEPT !.detached =
       WithDetached(@ \ {d}, d.content, WithoutCall(d.calls, k))]
  /\ UNCHANGED <<build, spec, pc, layers, positions, dfs, anchorIn, anchorOut, render,
                 editor, inflight, storage>>

(* the timer of call k on the detached editor d fires: its arrow is       *)
(* created there; the fade that follows reaches no listener                *)
DetachedEdgeTimerFires(d, k) ==
  /\ d \in canvas.detached
  /\ k \in 1..Len(d.calls)
  /\ d.calls[k].stage = "edgeTimer"
  /\ canvas' = [canvas EXCEPT !.detached =
       WithDetached(@ \ {d},
                    d.content \cup {Shape(d.calls[k].specOf, "arrow", d.calls[k].id)},
                    WithoutCall(d.calls, k))]
  /\ UNCHANGED <<build, spec, pc, layers, positions, dfs, anchorIn, anchorOut, render,
                 editor, inflight, storage>>

(* one of the zoom buttons: if the editor is there, the camera moves,     *)
(* which changes the store and no shape of the content                    *)
ZoomButton ==
  /\ canvas.specOf # NoMessage
  /\ canvas.gestures < MaxGestures
  /\ canvas' = [canvas EXCEPT !.gestures = @ + 1, !.changed = @ \/ canvas.ready]
  /\ UNCHANGED <<build, spec, pc, layers, positions, dfs, anchorIn, anchorOut, render,
                 editor, inflight, storage>>

(* the editor reports its changes to the registered listener onChange:    *)
(* unless a restore is going on, the snapshot of the editor is cached     *)
(* under the shown message and the debounced save is set                   *)
ChangeDelivered ==
  /\ canvas.changed
  /\ canvas' =
       IF canvas.restoring \/ canvas.messageId = NoMessage
       THEN [canvas EXCEPT !.changed = FALSE]
       ELSE [canvas EXCEPT !.changed = FALSE,
                           !.cache[canvas.messageId] = Snapshot(canvas.content),
                           !.saveTimer = [active |-> TRUE, msg |-> canvas.messageId,
                                          snapshot |-> Snapshot(canvas.content)]]
  /\ UNCHANGED <<build, spec, pc, layers, positions, dfs, anchorIn, anchorOut, render,
                 editor, inflight, storage>>

(* the debounce timer fires: saveStoredSnapshot(messageId, spec, snap) *)
SaveTimerFires(sigs) ==
  /\ canvas.saveTimer.active
  /\ storage' = [storage EXCEPT
       !.items = saveSnapshot(@, canvas.saveTimer.msg, sigs[canvas.saveTimer.msg],
                              canvas.saveTimer.snapshot, FALSE)]
  /\ canvas' = [canvas EXCEPT !.saveTimer = NoTimer]
  /\ UNCHANGED <<build, spec, pc, layers, positions, dfs, anchorIn, anchorOut, render,
                 editor, inflight>>

(* the debounce timer t of a component that was unmounted fires *)
OrphanSaveFires(t, sigs) ==
  /\ t \in canvas.orphanSaves
  /\ storage' = [storage EXCEPT
       !.items = saveSnapshot(@, t.msg, sigs[t.msg], t.snapshot, FALSE)]
  /\ canvas' = [canvas EXCEPT !.orphanSaves = @ \ {t}]
  /\ UNCHANGED <<build, spec, pc, layers, positions, dfs, anchorIn, anchorOut, render,
                 editor, inflight>>

(* setTimeout(() => (isRestoringRef.current = false), 50) *)
RestoreTimerFires ==
  /\ canvas.restoring
  /\ canvas' = [canvas EXCEPT !.restoring = FALSE]
  /\ UNCHANGED <<build, spec, pc, layers, positions, dfs, anchorIn, anchorOut, render,
                 editor, inflight, storage>>

NextCanvas ==
  \/ \E sigs \in {CanvasSignatures} :
       \/ \E m \in CanvasMessages : SelectMessage(m, sigs)
       \/ HandleMount(sigs)
       \/ \E k \in 1..MaxGestures : CanvasCallResolves(k, sigs)
       \/ \E d \in canvas.detached : \E k \in 1..MaxGestures : DetachedCallResolves(d, k, sigs)
       \/ SaveTimerFires(sigs)
       \/ \E t \in canvas.orphanSaves : OrphanSaveFires(t, sigs)
  \/ \E s \in CanvasMessages : ShowSpec(s)
  \/ Unmount
  \/ Reset
  \/ \E k \in 1..MaxGestures : CanvasLayoutSettles(k)
  \/ \E k \in 1..MaxGestures : CanvasEdgeTimerFires(k)
  \/ \E k \in 1..MaxGestures : CanvasFadeTimerFires(k)
  \/ \E d \in canvas.detached : \E k \in 1..MaxGestures : DetachedLayoutSettles(d, k)
  \/ \E d \in canvas.detached : \E k \in 1..MaxGestures : DetachedCallThrows(d, k)
  \/ \E d \in canvas.detached : \E k \in 1..MaxGestures : DetachedEdgeTimerFires(d, k)
  \/ ZoomButton
  \/ ChangeDelivered
  \/ RestoreTimerFires

SpecCanvas == InitCanvas /\ [][NextCanvas]_vars

(* ------------------------------- properties ---------------------------- *)
ValidEdges(s) ==
  \A i \in 1..Len(s.edges) :
    s.edges[i].from \in NodeIds(s.nodes) /\ s.edges[i].to \in NodeIds(s.nodes)

RootIds(s) == Range(IdsOf(Roots(s.nodes, s.edges)))
ReachableFromRoot(s) == ReachableFrom(s.edges, RootIds(s))

(* C1: for every diagram type and every spec with unique node ids whose   *)
(* edges all reference existing nodes, the map returned by calculateLayout *)
(* has exactly the node ids as keys.                                       *)
C1_Coverage ==
  (pc = "laid" /\ ValidEdges(spec)) => DOMAIN positions = NodeIds(spec.nodes)

C1_Witness ==
  /\ pc = "laid"
  /\ spec.type = "sequence"
  /\ Len(spec.nodes) = 3
  /\ spec.edges = <<Edge("B", "C"), Edge("C", "B")>>
  /\ DOMAIN positions = {"A", "B", "C"}

(* C2: for every edge u -> v with u and v both reachable from a root (a   *)
(* node without incoming edge), assignLayers gives layer(v) >= layer(u)+1. *)
C2_LayerMonotone ==
  pc = "layered" =>
    \A i \in 1..Len(spec.edges) :
      LET u == spec.edges[i].from
          v == spec.edges[i].to
      IN (u \in ReachableFromRoot(spec) /\ v \in ReachableFromRoot(spec))
           => OMapGet(layers, v) >= OMapGet(layers, u) + 1

(* C3: assignLayers terminates on every finite graph, cycles included: a  *)
(* call on an already visited node opens no new forEach over its children, *)
(* and the run ends with a natural-number layer for every input node.      *)
AllLayered ==
  \A id \in NodeIds(spec.nodes) :
    /\ Cardinality({i \in 1..Len(layers) : layers[i].id = id}) = 1
    /\ OMapGet(layers, id) \in Nat

VisitedCallOpensNoFrame ==
  (/\ pc = "layering"
   /\ Len(dfs.stack) > 0
   /\ Len(dfs.stack[Len(dfs.stack)].ch) > 0
   /\ Head(dfs.stack[Len(dfs.stack)].ch) \in dfs.visited)
    => Len(dfs'.stack) <= Len(dfs.stack)

C3_Terminates ==
  /\ [][VisitedCallOpensNoFrame]_vars
  /\ (pc = "layering") ~> (pc = "layered" /\ AllLayered)

C3_Witness ==
  /\ pc = "layered"
  /\ spec.edges = <<Edge("A", "B"), Edge("B", "C"), Edge("C", "A")>>
  /\ AllLayered

(* C4: for every non-empty node list and every edge list, assignLayers    *)
(* gives each input node exactly one layer and the minimum layer is 0.     *)
C4_MinLayerZero ==
  pc = "layered" =>
    /\ AllLayered
    /\ \E i \in 1..Len(layers) : layers[i].layer = 0
    /\ \A i \in 1..Len(layers) : layers[i].layer >= 0

(* C8: for two boxes of equal width W > 0 and height H > 0 with distinct  *)
(* centers, anchorOnRect returns a point on the boundary of the first box, *)
(* on the side facing the other center: x exactly W/2 from the center and  *)
(* y within H/2 of it, or y exactly H/2 from the center and x within W/2.  *)
AnchorCenter == Pos(RAdd(RInt(anchorIn.a.x), Rat(anchorIn.w, 2)),
                    RAdd(RInt(anchorIn.a.y), Rat(anchorIn.h, 2)))
AnchorDelta == Pos(anchorIn.b.x - anchorIn.a.x, anchorIn.b.y - anchorIn.a.y)
AnchorCase ==
  /\ pc = "anchored"
  /\ anchorIn.w > 0
  /\ anchorIn.h > 0
  /\ AnchorDelta # Pos(0, 0)

OnFacingVerticalSide ==
  /\ AnchorDelta.x # 0
  /\ REq(RSub(anchorOut.x, AnchorCenter.x),
         Rat((IF AnchorDelta.x > 0 THEN 1 ELSE -1) * anchorIn.w, 2))
  /\ RLe(RAbs(RSub(anchorOut.y, AnchorCenter.y)), Rat(anchorIn.h, 2))

OnFacingHorizontalSide ==
  /\ AnchorDelta.y # 0
  /\ REq(RSub(anchorOut.y, AnchorCenter.y),
         Rat((IF AnchorDelta.y > 0 THEN 1 ELSE -1) * anchorIn.h, 2))
  /\ RLe(RAbs(RSub(anchorOut.x, AnchorCenter.x)), Rat(anchorIn.w, 2))

C8_AnchorOnBoundary ==
  AnchorCase => (OnFacingVerticalSide \/ OnFacingHorizontalSide)

C8_Witness ==
  /\ AnchorCase
  /\ anchorIn.a = Pos(0, 0)
  /\ anchorIn.b = Pos(140, 50)
  /\ anchorIn.w = 220
  /\ anchorIn.h = 120
  /\ OnFacingVerticalSide
  /\ ~REq(anchorOut.y, AnchorCenter.y)

(* C9: an edge whose from or to is no node id does not affect layout: the *)
(* position of every existing node equals the position computed for the   *)
(* same spec with that edge removed.                                       *)
Dangling(s, i) ==
  s.edges[i].from \notin NodeIds(s.nodes) \/ s.edges[i].to \notin NodeIds(s.nodes)
WithoutEdge(s, i) ==
  [s EXCEPT !.edges = SubSeq(s.edges, 1, i - 1) \o SubSeq(s.edges, i + 1, Len(s.edges))]

C9_DanglingEdgeIgnored ==
  pc = "laid" =>
    \A i \in 1..Len(spec.edges) :
      Dangling(spec, i) =>
        \A id \in NodeIds(spec.nodes) :
          positions[id] = calculateLayout(build, WithoutEdge(spec, i))[id]

(* C10: for a spec whose type is missing or not a recognised diagram type, *)
(* calculateLayout returns exactly the map layoutDirectedGraph returns for *)
(* the same nodes and edges.                                               *)
Recognised(b) ==
  IF b = "converter" THEN {"sequence", "tree", "flowchart", "directed-graph"}
  ELSE KnownTypes

C10_UnknownTypeIsDirectedGraph ==
  (pc = "laid" /\ spec.type \notin Recognised(build)) =>
    /\ ~layoutDirectedGraphThrows(spec.nodes, spec.edges)
    /\ positions = layoutDirectedGraph(build, spec.nodes, spec.edges)

(* C10 as amended: the same, for a spec with at least one node. *)
C10_UnknownTypeIsDirectedGraphNonEmpty ==
  (pc = "laid" /\ spec.type \notin Recognised(build) /\ Len(spec.nodes) > 0) =>
    /\ ~layoutDirectedGraphThrows(spec.nodes, spec.edges)
    /\ positions = layoutDirectedGraph(build, spec.nodes, spec.edges)

C10_Witness ==
  /\ pc = "laid"
  /\ spec.type = NoType
  /\ build = "part011"
  /\ Len(spec.nodes) = 3
  /\ spec.edges = <<Edge("A", "B"), Edge("A", "C")>>
  /\ positions = layoutDirectedGraph(build, spec.nodes, spec.edges)
  /\ positions # layoutClassDiagram(spec.nodes, spec.edges)

(* C6: when computeElkLayout rejects, applyDiagramToEditor does not fail: *)
(* it continues with calculateLayout(spec), which has a position for every *)
(* node of a spec whose edges reference existing nodes.                    *)
IsNodeShape(sh) == sh.type \in {"geo", "note"}

NodeShapes == {editor[k].node : k \in {j \in 1..Len(editor) : IsNodeShape(editor[j])}}

C6_FallbackOnReject ==
  render.elk = "rejected" =>
    /\ ~render.failed
    /\ render.nodePositions = calculateLayout(build, spec)
    /\ ValidEdges(spec) => NodeIds(spec.nodes) \subseteq DOMAIN render.nodePositions
    /\ (ValidEdges(spec) /\ render.pc \in {"resolved", "finished"})
         => NodeShapes = NodeIds(spec.nodes)

C6_Witness ==
  /\ render.elk = "rejected"
  /\ render.pc = "finished"
  /\ Len(spec.nodes) = 2
  /\ spec.edges = <<Edge("A", "B")>>
  /\ spec.type = "flowchart"
  /\ NodeShapes = {"A", "B"}

(* C7: when computeElkLayout resolves with a map that lacks a node of the *)
(* spec, the node is positioned with the fallback strategy and a shape is  *)
(* created for every node of the spec.                                     *)
C7_MissingNodesMerged ==
  (render.elk = "resolved" /\ render.pc \in {"resolved", "finished"}) =>
    /\ NodeIds(spec.nodes) \subseteq DOMAIN render.nodePositions
    /\ NodeShapes = NodeIds(spec.nodes)

(* C11: for a spec with an empty node list calculateLayout returns an empty *)
(* position map for every diagram type and raises no error.                *)
C11_EmptyNodeList ==
  (pc # "idle" /\ Len(spec.nodes) = 0) => (pc = "laid" /\ positions = EmptyMap)

C11_Witness ==
  /\ pc = "laid"
  /\ Len(spec.nodes) = 0
  /\ Len(spec.edges) > 0
  /\ spec.type = "flowchart"
  /\ positions = EmptyMap

(* C12: a started render always eventually proceeds past the layout, also  *)
(* when the external layout engine never answers: applyDiagramToEditor     *)
(* falls back to the per-type strategy and goes on to create the shapes.   *)
C12_LayoutNeverBlocksRender ==
  (render.pc = "awaitElk") ~> (render.pc \in {"nodeWait", "resolved", "finished"})

(* C13: when a render is started while an earlier applyDiagramToEditor call *)
(* on the same editor is still in flight, no shape of the earlier call is  *)
(* created afterwards, and once both calls have finished the editor holds  *)
(* only shapes of the later call.                                          *)
NoStaleShapeCreated ==
  inflight.active =>
    \A k \in (Len(editor) + 1)..Len(editor') : editor'[k].id >= SecondCallIds

OnlyShapesOfLatest ==
  (inflight.active /\ inflight.render.pc = "finished" /\ render.pc = "finished") =>
    \A k \in 1..Len(editor) : editor[k].id >= SecondCallIds

C13_StaleRenderIgnored ==
  [][NoStaleShapeCreated]_vars /\ []OnlyShapesOfLatest

(* C14: for every strategy and every spec with unique node ids and edges   *)
(* between existing nodes, no two distinct nodes get the same (x, y).      *)
C14_NoTwoNodesAtOnePoint ==
  (pc = "laid" /\ ValidEdges(spec)) =>
    \A m, n \in NodeIds(spec.nodes) :
      (m # n /\ MapHas(positions, m) /\ MapHas(positions, n)) => positions[m] # positions[n]

(* C15: a node that the traversal of assignLayers reaches more than once    *)
(* keeps the maximum of the layers it was reached with, and the diamond    *)
(* A->B, A->C, B->D, C->D gets layers A=0, B=C=1, D=2 for every order of   *)
(* its edge list.                                                          *)
ReachedNode == Head(dfs.stack[Len(dfs.stack)].ch)
ReachedLayer == dfs.stack[Len(dfs.stack)].layer

MaxLayerKept ==
  IF dfs.pc = "run" /\ dfs'.calls = dfs.calls + 1
  THEN /\ OMapGet(dfs'.layers, ReachedNode) =
            IF ReachedNode \in OMapKeys(dfs.layers)
            THEN MaxOf({OMapGet(dfs.layers, ReachedNode), ReachedLayer})
            ELSE ReachedLayer
       /\ \A m \in OMapKeys(dfs.layers) \ {ReachedNode} :
            OMapGet(dfs'.layers, m) = OMapGet(dfs.layers, m)
  ELSE \A m \in OMapKeys(dfs.layers) : OMapGet(dfs'.layers, m) = OMapGet(dfs.layers, m)

DiamondEdges == {Edge("A", "B"), Edge("A", "C"), Edge("B", "D"), Edge("C", "D")}

IsDiamond(s) ==
  /\ s.nodes = NodeList(4)
  /\ Len(s.edges) = 4
  /\ Range(s.edges) = DiamondEdges

DiamondLayers ==
  (pc = "layered" /\ IsDiamond(spec)) =>
    /\ OMapGet(layers, "A") = 0
    /\ OMapGet(layers, "B") = 1
    /\ OMapGet(layers, "C") = 1
    /\ OMapGet(layers, "D") = 2

C15_MaxLayerOnRevisit ==
  [][MaxLayerKept]_vars /\ []DiamondLayers

C15_Witness ==
  /\ pc = "layered"
  /\ spec.nodes = NodeList(4)
  /\ spec.edges = <<Edge("C", "D"), Edge("A", "B"), Edge("B", "D"), Edge("A", "C")>>
  /\ OMapGet(layers, "D") = 2
  /\ dfs.calls = 5

(* C16: when an edge names an id that is no node of the spec, the position *)
(* map of each strategy and the layer map of assignLayers still have       *)
(* exactly the node ids as keys: no entry for the non-existent id.         *)
HasDanglingEdge(s) == \E i \in 1..Len(s.edges) : Dangling(s, i)

C16_NoKeyForMissingId ==
  HasDanglingEdge(spec) =>
    /\ (pc = "laid" /\ Len(spec.nodes) > 0) => DOMAIN positions = NodeIds(spec.nodes)
    /\ pc = "layered" => OMapKeys(layers) = NodeIds(spec.nodes)

(* C17: anchorOnRect never divides by zero and never returns an undefined  *)
(* coordinate; for identical centers it returns the center of the first    *)
(* box, and for a box of zero width or zero height it returns the box      *)
(* center for every position of the other box.                             *)
(* A fraction with denominator 0 is the result of a division by zero.      *)
Defined(p) == p.d > 0

AnchorDefined == Defined(anchorOut.x) /\ Defined(anchorOut.y)

AnchorIsCenter == REq(anchorOut.x, AnchorCenter.x) /\ REq(anchorOut.y, AnchorCenter.y)

C17_DegenerateGivesCenter ==
  pc = "anchored" =>
    /\ AnchorDefined
    /\ anchorIn.a = anchorIn.b => AnchorIsCenter
    /\ (anchorIn.w = 0 \/ anchorIn.h = 0) => AnchorIsCenter

(* What the code does in the degenerate cases (holds): the result is       *)
(* always defined; it is the box                                           *)
(* center for identical centers, for zero height, and for zero width when  *)
(* the other box is not straight above or below; a box of zero width and   *)
(* positive height with the other box straight above or below gives the    *)
(* end of the box facing the other: x of the center, y half the height off.*)
C17_DegenerateIsDefined ==
  pc = "anchored" =>
    /\ AnchorDefined
    /\ anchorIn.a = anchorIn.b => AnchorIsCenter
    /\ (anchorIn.h = 0 \/ (anchorIn.w = 0 /\ anchorIn.a.x # anchorIn.b.x)) => AnchorIsCenter
    /\ (anchorIn.w = 0 /\ anchorIn.h > 0 /\ anchorIn.a.x = anchorIn.b.x
          /\ anchorIn.a.y # anchorIn.b.y) =>
         /\ REq(anchorOut.x, AnchorCenter.x)
         /\ REq(anchorOut.y,
                IF anchorIn.b.y > anchorIn.a.y
                THEN RAdd(AnchorCenter.y, Rat(anchorIn.h, 2))
                ELSE RSub(AnchorCenter.y, Rat(anchorIn.h, 2)))

C17_Witness ==
  /\ pc = "anchored"
  /\ anchorIn.h = 0
  /\ anchorIn.w = 220
  /\ anchorIn.a.y = anchorIn.b.y
  /\ anchorIn.a.x < anchorIn.b.x
  /\ AnchorDefined
  /\ AnchorIsCenter

(* C18: every arrow drawn by applyDiagramToEditor starts on the boundary   *)
(* of the rectangle drawn for its source node and ends on the boundary of  *)
(* the rectangle drawn for its target node (the position, width and height *)
(* of the created shape).                                                  *)
Between(lo, p, hi) == RLe(lo, p) /\ RLe(p, hi)

OnBoundaryOf(p, g) ==
  LET left == RInt(g.x)
      right == RInt(g.x + g.w)
      top == RInt(g.y)
      bottom == RInt(g.y + g.h)
  IN \/ (REq(p.x, left) \/ REq(p.x, right)) /\ Between(top, p.y, bottom)
     \/ (REq(p.y, top) \/ REq(p.y, bottom)) /\ Between(left, p.x, right)

ShapeOfNode(nodeId) ==
  editor[CHOOSE k \in 1..Len(editor) : IsNodeShape(editor[k]) /\ editor[k].node = nodeId]

ArrowStart(a) == a.start
ArrowEnd(a) == Pos(RAdd(a.start.x, a.end.x), RAdd(a.start.y, a.end.y))

C18_ArrowOnDrawnRectangles ==
  \A k \in 1..Len(editor) :
    editor[k].type = "arrow" =>
      /\ OnBoundaryOf(ArrowStart(editor[k]), ShapeOfNode(editor[k].from))
      /\ OnBoundaryOf(ArrowEnd(editor[k]), ShapeOfNode(editor[k].to))

(* C19: applyDiagramToEditor creates exactly one arrow, in edge order, for *)
(* each edge whose two endpoints have a created node shape and a position, *)
(* and none for any other edge; parallel and opposite edges between one    *)
(* pair of nodes each get their own arrow, with the same end points.       *)
Arrows == SelectSeq(editor, LAMBDA sh : sh.type = "arrow")

DrawableEdges ==
  SelectSeq(spec.edges,
            LAMBDA e : /\ e.from \in NodeShapes /\ e.to \in NodeShapes
                       /\ MapHas(render.nodePositions, e.from)
                       /\ MapHas(render.nodePositions, e.to))

SamePoint(p, q) == REq(p.x, q.x) /\ REq(p.y, q.y)

C19_OneArrowPerDrawableEdge ==
  (render.pc = "finished" /\ ~render.failed) =>
    /\ Len(Arrows) = Len(DrawableEdges)
    /\ \A k \in 1..Len(Arrows) :
         Arrows[k].from = DrawableEdges[k].from /\ Arrows[k].to = DrawableEdges[k].to
    /\ \A j, k \in 1..Len(Arrows) :
         /\ j # k => Arrows[j].id # Arrows[k].id
         /\ (Arrows[j].from = Arrows[k].from /\ Arrows[j].to = Arrows[k].to) =>
              /\ SamePoint(ArrowStart(Arrows[j]), ArrowStart(Arrows[k]))
              /\ SamePoint(ArrowEnd(Arrows[j]), ArrowEnd(Arrows[k]))
         /\ (Arrows[j].from = Arrows[k].to /\ Arrows[j].to = Arrows[k].from) =>
              SamePoint(ArrowStart(Arrows[j]), ArrowEnd(Arrows[k]))

C19_Witness ==
  /\ render.pc = "finished"
  /\ spec.nodes = NodeList(2)
  /\ spec.edges = <<Edge("A", "B"), Edge("A", "B")>>
  /\ Len(Arrows) = 2
  /\ SamePoint(ArrowStart(Arrows[1]), ArrowStart(Arrows[2]))

(* C20: for a chain n1 -> n2 -> ... -> nk the i-th node has layer i - 1,   *)
(* and laid out as a flowchart the y coordinates increase strictly along   *)
(* the chain while all nodes have one x coordinate.                        *)
(* The orders n1..nk of the node ids that make the edge list a chain.      *)
ChainOrders(s) ==
  LET k == Len(s.nodes)
  IN {c \in [1..k -> NodeIds(s.nodes)] :
        /\ \A i, j \in 1..k : i # j => c[i] # c[j]
        /\ Len(s.edges) = k - 1
        /\ Range(s.edges) = {Edge(c[i], c[i + 1]) : i \in 1..(k - 1)}}

C20_ChainFlowchart ==
  \A c \in ChainOrders(spec) :
    /\ pc = "layered" => \A i \in 1..Len(c) : OMapGet(layers, c[i]) = i - 1
    /\ (pc = "laid" /\ spec.type = "flowchart") =>
         /\ DOMAIN positions = NodeIds(spec.nodes)
         /\ \A i, j \in 1..Len(c) :
              /\ positions[c[i]].x = positions[c[j]].x
              /\ i < j => positions[c[i]].y < positions[c[j]].y

C20_Witness ==
  /\ pc = "laid"
  /\ spec.type = "flowchart"
  /\ spec.nodes = NodeList(3)
  /\ spec.edges = <<Edge("A", "C"), Edge("B", "A")>>
  /\ positions["B"].y < positions["A"].y
  /\ positions["A"].y < positions["C"].y
  /\ positions["A"].x = positions["C"].x

(* C21: in the sequence strategy with at least one start node, every node  *)
(* unreachable from all start nodes lies in a trailing column: its x is    *)
(* greater than the x of every node reachable from a start node.           *)
C21_UnreachableInTrailingColumn ==
  (pc = "laid" /\ spec.type = "sequence" /\ RootIds(spec) # {}) =>
    \A u \in NodeIds(spec.nodes) \ ReachableFromRoot(spec) :
      \A v \in NodeIds(spec.nodes) \cap ReachableFromRoot(spec) :
        positions[u].x > positions[v].x

(* C22: in the tree strategy with at least one root, the nodes the         *)
(* traversal from the roots does not visit are on one common last level:   *)
(* they share one y, which is greater than the y of every visited node.    *)
C22_UnvisitedOnOneLastLevel ==
  (pc = "laid" /\ spec.type = "tree" /\ RootIds(spec) # {}) =>
    LET unvisited == NodeIds(spec.nodes) \ ReachableFromRoot(spec)
        visited == NodeIds(spec.nodes) \cap ReachableFromRoot(spec)
    IN /\ \A u, w \in unvisited : positions[u].y = positions[w].y
       /\ \A u \in unvisited : \A v \in visited : positions[u].y > positions[v].y

(* C23: in the network strategy every node lies on exactly one of the two
   circles around (600, 400), and every node on the inner circle has a total
   degree (an edge counts once for its from node and once for its to node)
   at least that of every node on the outer circle. *)
TotalDegree(s, id) ==
  Cardinality({i \in 1..Len(s.edges) : s.edges[i].from = id})
  + Cardinality({i \in 1..Len(s.edges) : s.edges[i].to = id})

OnCircleOfRadius(p, radius) ==
  LET d2 == (p.x - 600) * (p.x - 600) + (p.y - 400) * (p.y - 400)
  IN (radius - 2) * (radius - 2) <= d2 /\ d2 <= (radius + 2) * (radius + 2)

InnerCircle == {id \in NodeIds(spec.nodes) : OnCircleOfRadius(positions[id], 250)}

OuterCircle == {id \in NodeIds(spec.nodes) : OnCircleOfRadius(positions[id], 500)}

C23_HubsByTotalDegree ==
  (pc = "laid" /\ spec.type = "network" /\ build = "part011") =>
    /\ InnerCircle \cup OuterCircle = NodeIds(spec.nodes)
    /\ InnerCircle \cap OuterCircle = {}
    /\ \A u \in InnerCircle : \A v \in OuterCircle :
         TotalDegree(spec, u) >= TotalDegree(spec, v)

(* a laid-out network whose inner circle holds a node that is not first in
   the input and whose outer circle holds a node of smaller degree *)
C23_Witness ==
  /\ pc = "laid" /\ spec.type = "network" /\ build = "part011"
  /\ \E u \in InnerCircle : \E v \in OuterCircle :
       /\ u # spec.nodes[1].id
       /\ TotalDegree(spec, u) > TotalDegree(spec, v)

(* C24: in the network strategy the inner circle holds floor(0.3 * n) of the
   n nodes, and a non-empty diagram has at least one inner-circle node. *)
C24_InnerCircleNeverEmpty ==
  (pc = "laid" /\ spec.type = "network" /\ build = "part011"
     /\ Len(spec.nodes) > 0) =>
    /\ Cardinality(InnerCircle) = (3 * Len(spec.nodes)) \div 10
    /\ Cardinality(InnerCircle) >= 1

(* C25: within one applyDiagramToEditor call the external engine is invoked
   exactly once, calculateLayout runs at most once and exactly when that
   invocation was rejected, and the position map chosen at that moment (the
   engine's, or calculateLayout's after a rejection) is the one every shape
   of the render is placed with: it never changes afterwards. *)
NodeShapesAtChosenMap ==
  \A k \in 1..Len(editor) :
    IsNodeShape(editor[k]) =>
      /\ MapHas(render.nodePositions, editor[k].node)
      /\ editor[k].x = render.nodePositions[editor[k].node].x
      /\ editor[k].y = render.nodePositions[editor[k].node].y

OneLayoutPerRender ==
  /\ render.pc # "idle" => render.elkCalls = 1
  /\ render.layoutCalls <= 1
  /\ (render.layoutCalls = 1) <=> (render.elk = "rejected")
  /\ (render.elk = "rejected" /\ ~render.failed) =>
       render.nodePositions = calculateLayout(build, spec)
  /\ NodeShapesAtChosenMap

ChosenMapIsKept ==
  (render.pc \notin {"idle", "awaitElk"}) =>
    /\ render'.nodePositions = render.nodePositions
    /\ render'.elkCalls = render.elkCalls
    /\ render'.layoutCalls = render.layoutCalls

C25_OneEngineCallOneFallback ==
  []OneLayoutPerRender /\ [][ChosenMapIsKept]_vars

(* a finished render of two nodes and an edge whose engine call was
   rejected and whose shapes are placed by the fallback *)
C25_Witness ==
  /\ render.pc = "finished" /\ render.elk = "rejected" /\ ~render.failed
  /\ render.elkCalls = 1 /\ render.layoutCalls = 1
  /\ Len(spec.nodes) = 2
  /\ \E k \in 1..Len(editor) : editor[k].type = "arrow"

(* C26: in one applyDiagramToEditor run the editor is cleared when the run
   starts, node shapes are then created one per step in the input order of
   spec.nodes, and an arrow is created only after the node loop has ended:
   no node shape follows an arrow and no arrow exists while nodes are still
   to be created. *)
GeoCount(shapes) == Cardinality({k \in 1..Len(shapes) : IsNodeShape(shapes[k])})

InputIndex(id) == CHOOSE i \in 1..Len(spec.nodes) : spec.nodes[i].id = id

NodesThenArrowsInOrder ==
  (render.pc # "idle") =>
    /\ \A k, l \in 1..Len(editor) :
         (k < l /\ IsNodeShape(editor[k]) /\ IsNodeShape(editor[l])) =>
           /\ editor[k].node \in NodeIds(spec.nodes)
           /\ editor[l].node \in NodeIds(spec.nodes)
           /\ InputIndex(editor[k].node) < InputIndex(editor[l].node)
    /\ \A k, l \in 1..Len(editor) :
         (k < l /\ editor[k].type = "arrow") => editor[l].type = "arrow"
    /\ (\E k \in 1..Len(editor) : editor[k].type = "arrow") =>
         /\ render.pc = "finished"
         /\ \A i \in 1..Len(spec.nodes) :
              MapHas(render.nodePositions, spec.nodes[i].id) =>
                \E k \in 1..Len(editor) :
                  IsNodeShape(editor[k]) /\ editor[k].node = spec.nodes[i].id

ClearedThenOneAtATime ==
  /\ (render.pc = "idle" /\ render'.pc # "idle") => editor' = <<>>
  /\ (render.pc # "idle") =>
       /\ GeoCount(editor') <= GeoCount(editor) + 1
       /\ Len(editor') >= Len(editor)
       /\ \A k \in 1..Len(editor) : editor'[k] = editor[k]

C26_ClearNodesThenEdges ==
  []NodesThenArrowsInOrder /\ [][ClearedThenOneAtATime]_vars

(* a finished run that drew two node shapes and then an arrow *)
C26_Witness ==
  /\ render.pc = "finished"
  /\ Len(editor) = 3
  /\ IsNodeShape(editor[1]) /\ editor[1].node = "A"
  /\ IsNodeShape(editor[2]) /\ editor[2].node = "B"
  /\ editor[3].type = "arrow"

(* C27: at the moment the promise returned by applyDiagramToEditor resolves
   (the call has returned and its continuation takes the snapshot), the
   editor holds a node shape for every positioned node and an arrow for
   every edge between two drawn nodes. *)
C27_CompleteWhenResolved ==
  (render.pc = "resolved") =>
    /\ \A i \in 1..Len(spec.nodes) :
         MapHas(render.nodePositions, spec.nodes[i].id) =>
           spec.nodes[i].id \in NodeShapes
    /\ Len(Arrows) = Len(DrawableEdges)

(* C28: every snapshot kept under a message id M, in the in-memory cache
   or in persistent storage, holds shapes of M's diagram only: no
   generation that completes after the selection moved on stores the
   editor content of another message under M. *)
SnapshotIsOf(m, snapshot) ==
  snapshot.present => \A sh \in snapshot.shapes : sh.msg = m

C28_SnapshotsBelongToTheirMessage ==
  \A m \in CanvasMessages :
    /\ SnapshotIsOf(m, canvas.cache[m])
    /\ storage.items[m].kind = "data" => SnapshotIsOf(m, storage.items[m].snapshot)

(* C29: after any sequence of saveSnapshot, loadSnapshot and clearSnapshot
   calls, a loadSnapshot(M, spec) returns a snapshot only if the last
   saveSnapshot made for M since the last clearSnapshot(M) had a spec of
   the same signature, and the snapshot it returns is the one of that
   call. *)
C29_LoadReturnsLastSave ==
  LET load == storage.lastLoad
      save == storage.lastSave[load.msg]
  IN (load.made /\ load.value.present) =>
       (save.made /\ save.sig = load.sig /\ load.value = save.snapshot)

(* C29, amended: a loadSnapshot(M, spec) returns the snapshot of the last
   saveSnapshot for M since the last clearSnapshot(M) whose write to the
   storage succeeded, when that call had a spec of the same signature,
   and null in every other case; a saveSnapshot whose setItem throws
   leaves the stored item as it was. *)
C29_LoadReturnsLastWrittenSave ==
  LET load == storage.lastLoad
      save == storage.lastWritten[load.msg]
  IN load.made =>
       load.value = IF save.made /\ save.sig = load.sig
                    THEN save.snapshot ELSE NoSnapshot

(* a load that returns the snapshot written by the save before a failed
   one *)
C29_Witness ==
  /\ storage.lastLoad.made
  /\ storage.lastLoad.value.present
  /\ storage.lastLoad.value # storage.lastSave[storage.lastLoad.msg].snapshot
  /\ storage.lastLoad.value = storage.lastWritten[storage.lastLoad.msg].snapshot

(* C30: when the canvas, its editor there, comes to show a message (the
   message is selected, or Tldraw calls onMount) that has an entry in the
   in-memory cache, it loads that snapshot, reads no persistent storage
   and starts no applyDiagramToEditor call; a call is started only by an
   effect run that found neither a cache entry nor a stored snapshot, or
   by Reset, which has then cleared the editor and deleted the entry of
   the shown message id from the cache and from the storage (without a
   message id there is no entry, and Reset leaves both as they are). *)
ShowsFromCacheElseStorageElseSpec ==
  LET m == canvas'.messageId
      hasId == m \in CanvasMessages
      shown == /\ hasId /\ canvas'.ready
               /\ (canvas'.messageId # canvas.messageId \/ ~canvas.ready)
      started == Len(canvas'.calls) > Len(canvas.calls)
  IN /\ (shown /\ canvas.cache[m].present) =>
          /\ canvas'.content = canvas.cache[m].shapes
          /\ ~canvas'.readStorage
          /\ canvas'.calls = canvas.calls
          /\ canvas'.cache = canvas.cache
          /\ storage' = storage
     /\ (shown /\ started) =>
          /\ ~canvas.cache[m].present
          /\ ~loadSnapshot(storage.items, m, specSignature(CanvasSpec(m))).present
          /\ canvas'.readStorage
     /\ (~shown /\ started) =>
          /\ canvas'.content = {}
          /\ canvas'.messageId = canvas.messageId
          /\ IF hasId
             THEN ~canvas'.cache[m].present /\ storage'.items[m] = NoItem
             ELSE canvas'.cache = canvas.cache /\ storage' = storage

C30_CacheFirst ==
  [][ShowsFromCacheElseStorageElseSpec]_vars

(* a component mounted after an earlier one was unmounted (whose debounce
   timer is still pending) has just shown a message from its cache entry,
   without reading the storage and with no call of applyDiagramToEditor
   running *)
C30_Witness ==
  /\ canvas.messageId \in CanvasMessages
  /\ canvas.orphanSaves # {}
  /\ canvas.restoring /\ ~canvas.readStorage
  /\ canvas.cache[canvas.messageId].present
  /\ canvas.content = canvas.cache[canvas.messageId].shapes
  /\ \E g \in 0..MaxGestures : Shape(canvas.messageId, "node", g) \in canvas.content
  /\ canvas.calls = <<>>
====
